---- MODULE Spec2Model ----
(***************************************************************************)
(* docktool: a model of the four variants of the tool that the repository  *)
(* holds side by side.                                                      *)
(*                                                                         *)
(*   "analyzer"  the single-file program of src/analyzer.go (lines 393 on) *)
(*   "split"     the same program split over files: main of src/main.go   *)
(*               (306-371), src/project.go, src/analyzer.go (1-360) and    *)
(*               SaveToFile of src/pkg/generate/generate.go (217-226)      *)
(*   "simple"    the first version, src/main.go (1-304): no env detection  *)
(*   "docktool"  src/cmd/docktool/main.go with pkg/detect and pkg/generate *)
(*                                                                         *)
(* Strings.  A string is a sequence of atoms.  Text the program inspects   *)
(* character by character (paths, env-file lines, keys, values) is spelled *)
(* one character per atom; a literal the program only copies (a base       *)
(* image, an instruction, a fixed line of a template) is one atom.         *)
(*                                                                         *)
(* Texts.  A rendered text is a sequence of segments.  A segment is the    *)
(* bag of the lines one emission writes: a single WriteString is a         *)
(* one-line segment, a loop ranging over a Go map is one segment holding   *)
(* all its lines, because Go leaves the iteration order of a map open and  *)
(* any order of those lines can be produced.                               *)
(***************************************************************************)
EXTENDS Integers, Sequences, FiniteSets, TLC

VARIABLES
    prog,          \* which variant runs
    pc,            \* position of main
    composeFlag,   \* the -compose flag (analyzer variants)
    diskFiles,     \* project files under the root, in walk order
    envDisk,       \* the four candidate env files of the root
    files,         \* ProjectAnalyzer.files
    envConfig,     \* ProjectAnalyzer.envConfig: variables and secrets
    config,        \* the DockerConfig returned by GenerateDockerConfig
    projectType,   \* result of detect.DetectProjectType
    outDockerfile, \* the file Dockerfile
    outCompose,    \* the file docker-compose.yml
    exitCode,      \* -1 while running, then the process exit code
    output,        \* messages printed so far
    runs,          \* calls of detectEnvironmentVariables so far
    dirArg         \* docktool: whether the project directory was given

vars == <<prog, pc, composeFlag, diskFiles, envDisk, files, envConfig, config,
          projectType, outDockerfile, outCompose, exitCode, output, runs, dirArg>>

----------------------------------------------------------------------------
(* Bounds of the model *)

\* most project files in a FileSet
MaxFiles == 2

\* most lines in an environment-definition file
MaxEnvLines == 2

\* most calls of detectEnvironmentVariables on one analyzer
MaxRuns == 2

----------------------------------------------------------------------------
(* Strings *)

UpperChars == <<"A","B","C","D","E","F","G","H","I","J","K","L","M","N","O","P","Q","R","S","T","U","V","W","X","Y","Z">>

LowerChars == <<"a","b","c","d","e","f","g","h","i","j","k","l","m","n","o","p","q","r","s","t","u","v","w","x","y","z">>

DigitChars == <<"0","1","2","3","4","5","6","7","8","9">>

SpaceChars == {" ", "\t", "\n", "\r"}

Range(s) == {s[i] : i \in DOMAIN s}

\* the lower-case letter of each upper-case letter
LowerOf == [c \in {UpperChars[i] : i \in DOMAIN UpperChars} |->
               LowerChars[CHOOSE i \in DOMAIN UpperChars : UpperChars[i] = c]]

\* unicode.ToLower on one character (ASCII)
LowerChar(c) == IF c \in DOMAIN LowerOf THEN LowerOf[c] ELSE c

\* strings.ToLower
ToLower(s) == [i \in DOMAIN s |-> LowerChar(s[i])]

\* strings.EqualFold
EqualFold(s, t) == Len(s) = Len(t) /\ ToLower(s) = ToLower(t)

\* strings.HasSuffix
HasSuffix(s, suffix) ==
    /\ Len(suffix) <= Len(s)
    /\ SubSeq(s, Len(s) - Len(suffix) + 1, Len(s)) = suffix

\* strings.HasPrefix
HasPrefix(s, prefix) ==
    /\ Len(prefix) <= Len(s)
    /\ SubSeq(s, 1, Len(prefix)) = prefix

\* strings.Contains
Contains(s, sub) ==
    \E i \in 1..(Len(s) - Len(sub) + 1) : SubSeq(s, i, i + Len(sub) - 1) = sub

\* number of leading atoms of s that lie in set
LeadLen(s, set) ==
    IF \A i \in DOMAIN s : s[i] \in set THEN Len(s)
    ELSE (CHOOSE i \in DOMAIN s : s[i] \notin set /\ \A j \in 1..(i - 1) : s[j] \in set) - 1

\* number of trailing atoms of s that lie in set
TrailLen(s, set) ==
    IF \A i \in DOMAIN s : s[i] \in set THEN Len(s)
    ELSE Len(s) - (CHOOSE i \in DOMAIN s : s[i] \notin set /\ \A j \in (i + 1)..Len(s) : s[j] \in set)

\* strings.Trim(s, cutset); strings.TrimSpace is Trim by SpaceChars
Trim(s, set) ==
    IF \A i \in DOMAIN s : s[i] \in set THEN <<>>
    ELSE SubSeq(s, LeadLen(s, set) + 1, Len(s) - TrailLen(s, set))

\* filepath.Base: the last element of the path
Base(path) ==
    LET p == SubSeq(path, 1, Len(path) - TrailLen(path, {"/"}))
        n == TrailLen(p, Range(p) \ {"/"})
    IN  IF path = <<>> THEN <<".">>
        ELSE IF p = <<>> THEN <<"/">>
        ELSE SubSeq(p, Len(p) - n + 1, Len(p))

----------------------------------------------------------------------------
(* Maps (Go map[string]string) and bags of lines *)

EmptyMap == <<>>

MapSet(m, k, v) == [x \in (DOMAIN m) \cup {k} |-> IF x = k THEN v ELSE m[x]]

\* mutant: the defaults are written over the entries m has
FillDefaults_Overwrites(m, defaults) ==
    [x \in (DOMAIN m) \cup (DOMAIN defaults) |-> IF x \in DOMAIN defaults THEN defaults[x] ELSE m[x]]

\* insert the entries of defaults whose key m lacks
FillDefaults(m, defaults) ==
    [x \in (DOMAIN m) \cup (DOMAIN defaults) |-> IF x \in DOMAIN m THEN m[x] ELSE defaults[x]]

\* the segment one WriteString(line + "\n") writes
Seg(line) == [l \in {line} |-> 1]

\* the segment a loop over the keys of a map writes, lineOf[k] being the line
\* written for key k
RangeSeg(lineOf) ==
    [l \in Range(lineOf) |-> Cardinality({k \in DOMAIN lineOf : lineOf[k] = l})]

\* the lines of a segment, and how often a line occurs in it
SegLines(seg) == DOMAIN seg

Copies(seg, line) == IF line \in DOMAIN seg THEN seg[line] ELSE 0

----------------------------------------------------------------------------
(* Project Inspector *)

\* mutant: the whole relative path is compared, letter case included
hasFile_ExactPath(fs, filename) ==
    \E i \in DOMAIN fs : fs[i] = filename

hasFile(fs, filename) ==
    \E i \in DOMAIN fs : EqualFold(Base(fs[i]), filename)

hasAnyFile(fs, extensions) ==
    \E i \in DOMAIN fs : \E ext \in extensions : HasSuffix(ToLower(fs[i]), ext)

----------------------------------------------------------------------------
(* Environment Collector *)

\* the zero EnvConfig of NewEnvConfig
NewEnvConfig == [variables |-> EmptyMap, secrets |-> <<>>]

IdentStart == Range(UpperChars) \cup Range(LowerChars) \cup {"_"}

IdentChars == IdentStart \cup Range(DigitChars)

\* regexp class \s
RegexSpace == {" ", "\t", "\n", "\r", "\f"}

\* regexp.MatchString("(?i)" + pattern, key): pattern is a plain word, so the
\* match is a case-insensitive substring test
MatchString(pattern, key) ==
    LET lower == ToLower(key) IN Contains(lower, pattern)

\* mutant: the patterns are matched with the letter case of the key
isLikelySecret_CaseSensitive(key, value) ==
    \E pattern \in { <<"p","a","s","s","w","o","r","d">>, <<"s","e","c","r","e","t">>, <<"t","o","k","e","n">>, <<"k","e","y">>, <<"a","u","t","h">>,
                     <<"c","r","e","d","e","n","t","i","a","l">>, <<"c","e","r","t">> } : Contains(key, pattern)

isLikelySecret(key, value) ==
    \E pattern \in { <<"p","a","s","s","w","o","r","d">>, <<"s","e","c","r","e","t">>, <<"t","o","k","e","n">>, <<"k","e","y">>, <<"a","u","t","h">>,
                     <<"c","r","e","d","e","n","t","i","a","l">>, <<"c","e","r","t">> } : MatchString(pattern, key)

\* mutant: only keys that contain "password" are routed to the secrets list
isSecretVariable_PasswordOnly(key) == MatchString(<<"p","a","s","s","w","o","r","d">>, key)

isSecretVariable(key) ==
    \E pattern \in { <<"p","a","s","s","w","o","r","d">>, <<"s","e","c","r","e","t">>, <<"t","o","k","e","n">>, <<"k","e","y">>, <<"a","u","t","h">>,
                     <<"c","r","e","d","e","n","t","i","a","l">>, <<"c","e","r","t">> } : MatchString(pattern, key)

\* mutant: the copy without the pattern cert
isSecret_WithoutCert(key) ==
    \E pattern \in { <<"p","a","s","s","w","o","r","d">>, <<"s","e","c","r","e","t">>, <<"t","o","k","e","n">>, <<"k","e","y">>, <<"a","u","t","h">>,
                     <<"c","r","e","d","e","n","t","i","a","l">> } : MatchString(pattern, key)

isSecret(key) ==
    \E pattern \in { <<"p","a","s","s","w","o","r","d">>, <<"s","e","c","r","e","t">>, <<"t","o","k","e","n">>, <<"k","e","y">>, <<"a","u","t","h">>,
                     <<"c","r","e","d","e","n","t","i","a","l">>, <<"c","e","r","t">> } : MatchString(pattern, key)

\* variablePattern ^([A-Za-z_][A-Za-z0-9_]*)\s*=\s*(.*) on a trimmed line:
\* whether it matches, and its two groups
MatchVariable(line) ==
    LET k     == LeadLen(line, IdentChars)
        rest  == SubSeq(line, k + 1, Len(line))
        eq    == SubSeq(rest, LeadLen(rest, RegexSpace) + 1, Len(rest))
        after == SubSeq(eq, 2, Len(eq))
        val   == SubSeq(after, LeadLen(after, RegexSpace) + 1, Len(after))
    IN  IF line = <<>> \/ line[1] \notin IdentStart \/ eq = <<>> \/ eq[1] # "="
        THEN [ok |-> FALSE, key |-> <<>>, value |-> <<>>]
        ELSE [ok |-> TRUE, key |-> SubSeq(line, 1, k), value |-> val]

\* the body of parseEnvFile's scan loop for one line
ParseLine(text, ec) ==
    LET line == Trim(text, SpaceChars)
        m    == MatchVariable(line)
        val  == Trim(m.value, {"\"", "'"})
    IN  IF line = <<>> \/ line[1] = "#" \/ ~m.ok THEN ec
        ELSE [variables |-> MapSet(ec.variables, m.key, val),
              secrets   |-> IF isLikelySecret(m.key, val)
                            THEN Append(ec.secrets, m.key)
                            ELSE ec.secrets]

RECURSIVE ParseLines(_, _)
ParseLines(lines, ec) ==
    IF lines = <<>> THEN ec
    ELSE ParseLines(Tail(lines), ParseLine(Head(lines), ec))

\* parseEnvFile: an open failure reads nothing; a scanner failure comes after
\* the lines the file record holds have been read
parseEnvFile(file, ec) ==
    IF file.err = "open" THEN [ec |-> ec, err |-> TRUE]
    ELSE [ec |-> ParseLines(file.lines, ec), err |-> file.err = "scan"]

NodeCommonVars ==
    (<<"N","O","D","E","_","E","N","V">> :> <<"p","r","o","d","u","c","t","i","o","n">>) @@ (<<"P","O","R","T">> :> <<"3","0","0","0">>)

PythonCommonVars ==
    (<<"P","Y","T","H","O","N","P","A","T","H">> :> <<"/","a","p","p">>) @@ (<<"F","L","A","S","K","_","E","N","V">> :> <<"p","r","o","d","u","c","t","i","o","n">>)
    @@ (<<"D","J","A","N","G","O","_","S","E","T","T","I","N","G","S","_","M","O","D","U","L","E">> :> <<"p","r","o","j","e","c","t",".","s","e","t","t","i","n","g","s",".","p","r","o","d","u","c","t","i","o","n">>)

RubyCommonVars ==
    (<<"R","A","I","L","S","_","E","N","V">> :> <<"p","r","o","d","u","c","t","i","o","n">>) @@ (<<"R","A","C","K","_","E","N","V">> :> <<"p","r","o","d","u","c","t","i","o","n">>)

PHPCommonVars ==
    (<<"A","P","P","_","E","N","V">> :> <<"p","r","o","d","u","c","t","i","o","n">>) @@ (<<"A","P","P","_","D","E","B","U","G">> :> <<"f","a","l","s","e">>)

detectNodeEnvironmentVars(ec) ==
    [ec EXCEPT !.variables = FillDefaults(@, NodeCommonVars)]

detectPythonEnvironmentVars(ec) ==
    [ec EXCEPT !.variables = FillDefaults(@, PythonCommonVars)]

detectRubyEnvironmentVars(ec) ==
    [ec EXCEPT !.variables = FillDefaults(@, RubyCommonVars)]

detectPHPEnvironmentVars(ec) ==
    [ec EXCEPT !.variables = FillDefaults(@, PHPCommonVars)]

\* mutant: a Go project gets a default of its own
detectFrameworkEnvironmentVars_GoDefault(fs, ec) ==
    IF hasFile(fs, <<"p","a","c","k","a","g","e",".","j","s","o","n">>) THEN detectNodeEnvironmentVars(ec)
    ELSE IF hasFile(fs, <<"r","e","q","u","i","r","e","m","e","n","t","s",".","t","x","t">>) THEN detectPythonEnvironmentVars(ec)
    ELSE IF hasFile(fs, <<"c","o","m","p","o","s","e","r",".","j","s","o","n">>) THEN detectPHPEnvironmentVars(ec)
    ELSE IF hasFile(fs, <<"G","e","m","f","i","l","e">>) THEN detectRubyEnvironmentVars(ec)
    ELSE IF hasFile(fs, <<"g","o",".","m","o","d">>)
         THEN [ec EXCEPT !.variables = FillDefaults(@, (<<"G","I","N","_","M","O","D","E">> :> <<"r","e","l","e","a","s","e">>))]
    ELSE ec

detectFrameworkEnvironmentVars(fs, ec) ==
    IF hasFile(fs, <<"p","a","c","k","a","g","e",".","j","s","o","n">>) THEN detectNodeEnvironmentVars(ec)
    ELSE IF hasFile(fs, <<"r","e","q","u","i","r","e","m","e","n","t","s",".","t","x","t">>) THEN detectPythonEnvironmentVars(ec)
    ELSE IF hasFile(fs, <<"c","o","m","p","o","s","e","r",".","j","s","o","n">>) THEN detectPHPEnvironmentVars(ec)
    ELSE IF hasFile(fs, <<"G","e","m","f","i","l","e">>) THEN detectRubyEnvironmentVars(ec)
    ELSE ec

\* the names detectEnvironmentVariables tries, in order; envDisk[i] is the file
\* of name i
EnvFileNames == << <<".","e","n","v">>, <<".","e","n","v",".","e","x","a","m","p","l","e">>, <<".","e","n","v",".","t","e","m","p","l","a","t","e">>, <<".","e","n","v",".","d","e","f","a","u","l","t">> >>

\* detectEnvironmentVariables: parse the first env file os.Stat finds, then
\* fill the framework defaults; a parse error returns before the defaults
detectEnvironmentVariables(ed, fs, ec) ==
    IF \E i \in DOMAIN ed : ed[i].exists
    THEN LET first == CHOOSE i \in DOMAIN ed :
                          ed[i].exists /\ \A j \in 1..(i - 1) : ~ed[j].exists
             r     == parseEnvFile(ed[first], ec)
         IN  IF r.err THEN r
             ELSE [ec |-> detectFrameworkEnvironmentVars(fs, r.ec), err |-> FALSE]
    ELSE [ec |-> detectFrameworkEnvironmentVars(fs, ec), err |-> FALSE]

----------------------------------------------------------------------------
(* Configuration Synthesizer *)

\* the DockerConfig GenerateDockerConfig starts from
NewDockerConfig(isCompose) ==
    [baseImage |-> <<>>, ports |-> <<>>, commands |-> <<>>,
     environment |-> EmptyMap, isCompose |-> isCompose, services |-> EmptyMap]

\* mutant: the sources are copied before the dependencies are installed
configureNodeJS_CopyFirst(dc) ==
    [dc EXCEPT
        !.baseImage = <<"node:18-alpine">>,
        !.commands  = << <<"WORKDIR /app">>,
                         <<"COPY . .">>,
                         <<"RUN npm install">>,
                         <<"EXPOSE 3000">>,
                         <<"CMD [\"npm\", \"start\"]">> >>,
        !.ports     = << <<"3000:3000">> >>]

configureNodeJS(dc) ==
    [dc EXCEPT
        !.baseImage = <<"node:18-alpine">>,
        !.commands  = << <<"WORKDIR /app">>,
                         <<"COPY package*.json ./">>,
                         <<"RUN npm install">>,
                         <<"COPY . .">>,
                         <<"EXPOSE 3000">>,
                         <<"CMD [\"npm\", \"start\"]">> >>,
        !.ports     = << <<"3000:3000">> >>]

configurePython(dc) ==
    [dc EXCEPT
        !.baseImage = <<"python:3.9-slim">>,
        !.commands  = << <<"WORKDIR /app">>,
                         <<"COPY requirements.txt .">>,
                         <<"RUN pip install --no-cache-dir -r requirements.txt">>,
                         <<"COPY . .">>,
                         <<"EXPOSE 8000">>,
                         <<"CMD [\"python\", \"app.py\"]">> >>,
        !.ports     = << <<"8000:8000">> >>]

configureGo(dc) ==
    [dc EXCEPT
        !.baseImage = <<"golang:1.20-alpine">>,
        !.commands  = << <<"WORKDIR /app">>,
                         <<"COPY go.* .">>,
                         <<"RUN go mod download">>,
                         <<"COPY . .">>,
                         <<"RUN go build -o main .">>,
                         <<"EXPOSE 8080">>,
                         <<"CMD [\"./main\"]">> >>,
        !.ports     = << <<"8080:8080">> >>]

configureMavenJava(dc) ==
    [dc EXCEPT
        !.baseImage = <<"eclipse-temurin:17-jdk-alpine">>,
        !.commands  = << <<"WORKDIR /app">>,
                         <<"COPY pom.xml .">>,
                         <<"COPY .mvn .mvn">>,
                         <<"COPY mvnw .">>,
                         <<"RUN chmod +x mvnw">>,
                         <<"RUN ./mvnw dependency:go-offline">>,
                         <<"COPY src src">>,
                         <<"RUN ./mvnw package -DskipTests">>,
                         <<"EXPOSE 8080">>,
                         <<"CMD [\"java\", \"-jar\", \"target/*.jar\"]">> >>,
        !.ports     = << <<"8080:8080">> >>]

configureGradleJava(dc) ==
    [dc EXCEPT
        !.baseImage = <<"eclipse-temurin:17-jdk-alpine">>,
        !.commands  = << <<"WORKDIR /app">>,
                         <<"COPY build.gradle settings.gradle ./">>,
                         <<"COPY gradle gradle">>,
                         <<"COPY gradlew .">>,
                         <<"RUN chmod +x gradlew">>,
                         <<"RUN ./gradlew dependencies">>,
                         <<"COPY src src">>,
                         <<"RUN ./gradlew build -x test">>,
                         <<"EXPOSE 8080">>,
                         <<"CMD [\"java\", \"-jar\", \"build/libs/*.jar\"]">> >>,
        !.ports     = << <<"8080:8080">> >>]

\* mutant: the Gradle marker is asked first
configureJava_GradleFirst(fs, dc) ==
    IF hasFile(fs, <<"b","u","i","l","d",".","g","r","a","d","l","e">>) THEN configureGradleJava(dc)
    ELSE configureMavenJava(dc)

configureJava(fs, dc) ==
    IF hasFile(fs, <<"p","o","m",".","x","m","l">>) THEN configureMavenJava(dc)
    ELSE configureGradleJava(dc)

\* the assignment to dc.environment replaces the whole map
configureRuby(dc) ==
    [dc EXCEPT
        !.baseImage   = <<"ruby:3.2-alpine">>,
        !.commands    = << <<"WORKDIR /app">>,
                           <<"COPY Gemfile Gemfile.lock ./">>,
                           <<"RUN apk add --no-cache build-base postgresql-dev">>,
                           <<"RUN bundle install">>,
                           <<"COPY . .">>,
                           <<"EXPOSE 3000">>,
                           <<"CMD [\"bundle\", \"exec\", \"rails\", \"server\", \"-b\", \"0.0.0.0\"]">> >>,
        !.ports       = << <<"3000:3000">> >>,
        !.environment = (<<"R","A","I","L","S","_","E","N","V">> :> <<"p","r","o","d","u","c","t","i","o","n">>)]

configurePHP(dc) ==
    [dc EXCEPT
        !.baseImage = <<"php:8.2-apache">>,
        !.commands  = << <<"WORKDIR /var/www/html">>,
                         <<"RUN apt-get update && apt-get install -y \\\n    libzip-dev \\\n    zip \\\n    && docker-php-ext-install zip pdo pdo_mysql">>,
                         <<"COPY --from=composer:latest /usr/bin/composer /usr/bin/composer">>,
                         <<"COPY composer.* ./">>,
                         <<"RUN composer install --no-dev --no-scripts --no-autoloader">>,
                         <<"COPY . .">>,
                         <<"RUN composer dump-autoload --optimize">>,
                         <<"RUN chown -R www-data:www-data /var/www/html">>,
                         <<"EXPOSE 80">> >>,
        !.ports     = << <<"80:80">> >>]

\* mutant: the fallback profile publishes a port
configureGeneric_WithPort(dc) ==
    [dc EXCEPT
        !.baseImage = <<"ubuntu:latest">>,
        !.commands  = << <<"WORKDIR /app">>,
                         <<"COPY . .">>,
                         <<"CMD [\"/bin/bash\"]">> >>,
        !.ports     = << <<"8080:8080">> >>]

configureGeneric(dc) ==
    [dc EXCEPT
        !.baseImage = <<"ubuntu:latest">>,
        !.commands  = << <<"WORKDIR /app">>,
                         <<"COPY . .">>,
                         <<"CMD [\"/bin/bash\"]">> >>]

\* mutant: the Go case is moved above the Node.js case
configure_GoFirst(fs, dc) ==
    IF hasFile(fs, <<"g","o",".","m","o","d">>) THEN configureGo(dc)
    ELSE IF hasFile(fs, <<"p","a","c","k","a","g","e",".","j","s","o","n">>) THEN configureNodeJS(dc)
    ELSE IF hasFile(fs, <<"r","e","q","u","i","r","e","m","e","n","t","s",".","t","x","t">>) \/ hasFile(fs, <<"P","i","p","f","i","l","e">>) THEN configurePython(dc)
    ELSE IF hasFile(fs, <<"p","o","m",".","x","m","l">>) \/ hasFile(fs, <<"b","u","i","l","d",".","g","r","a","d","l","e">>) THEN configureJava(fs, dc)
    ELSE IF hasFile(fs, <<"G","e","m","f","i","l","e">>) THEN configureRuby(dc)
    ELSE IF hasFile(fs, <<"c","o","m","p","o","s","e","r",".","j","s","o","n">>) \/ hasAnyFile(fs, {<<".","p","h","p">>}) THEN configurePHP(dc)
    ELSE configureGeneric(dc)

\* the switch of GenerateDockerConfig: the first case that holds is taken
configure(fs, dc) ==
    IF hasFile(fs, <<"p","a","c","k","a","g","e",".","j","s","o","n">>) THEN configureNodeJS(dc)
    ELSE IF hasFile(fs, <<"r","e","q","u","i","r","e","m","e","n","t","s",".","t","x","t">>) \/ hasFile(fs, <<"P","i","p","f","i","l","e">>) THEN configurePython(dc)
    ELSE IF hasFile(fs, <<"g","o",".","m","o","d">>) THEN configureGo(dc)
    ELSE IF hasFile(fs, <<"p","o","m",".","x","m","l">>) \/ hasFile(fs, <<"b","u","i","l","d",".","g","r","a","d","l","e">>) THEN configureJava(fs, dc)
    ELSE IF hasFile(fs, <<"G","e","m","f","i","l","e">>) THEN configureRuby(dc)
    ELSE IF hasFile(fs, <<"c","o","m","p","o","s","e","r",".","j","s","o","n">>) \/ hasAnyFile(fs, {<<".","p","h","p">>}) THEN configurePHP(dc)
    ELSE configureGeneric(dc)

\* GenerateDockerConfig of the analyzer and split variants: collect the
\* environment (an error is only a warning), copy it, then configure
GenerateDockerConfig(ed, fs, ec, isCompose) ==
    LET r  == detectEnvironmentVariables(ed, fs, ec)
        dc == [NewDockerConfig(isCompose) EXCEPT !.environment = r.ec.variables]
    IN  [config |-> configure(fs, dc), ec |-> r.ec, warned |-> r.err]

\* GenerateDockerConfig of the simple variant: no environment collection
GenerateDockerConfigSimple(fs, isCompose) ==
    configure(fs, NewDockerConfig(isCompose))

----------------------------------------------------------------------------
(* Renderers *)

\* a literal line: one atom, the empty line being the empty string
Lit(a) == IF a = "" THEN <<>> ELSE <<a>>

\* one single-line segment per literal of the sequence
Lits(s) == [i \in DOMAIN s |-> Seg(Lit(s[i]))]

\* one single-line segment per string of a slice, in slice order
SliceSegs(lines) == [i \in DOMAIN lines |-> Seg(lines[i])]

\* n levels of indentation of unit u
Ind(u, n) == [i \in 1..n |-> u]

BagAdd(a, b) == [l \in (DOMAIN a) \cup (DOMAIN b) |-> Copies(a, l) + Copies(b, l)]

hasSecrets(dc) == \E key \in DOMAIN dc.environment : isSecretVariable(key)

hasSecret(dc) == \E key \in DOMAIN dc.environment : isSecret(key)

\* mutant: the ENV block is written ahead of the instruction list
generateDockerfileContent_EnvFirst(dc) ==
    LET env  == dc.environment
        Arg(key) == <<"ARG ">> \o key
        Env(key) == <<"ENV ">> \o key \o <<"=">> \o env[key]
    IN  << Seg(<<"FROM ">> \o dc.baseImage), Seg(<<>>) >>
        \o (IF Cardinality(DOMAIN env) > 0
            THEN << Seg(<<"# Build arguments">>),
                    RangeSeg([each \in DOMAIN env |-> Arg(each)]),
                    Seg(<<"# Environment variables">>),
                    RangeSeg([each \in DOMAIN env |-> Env(each)]),
                    Seg(<<>>) >>
            ELSE <<>>)
        \o SliceSegs(dc.commands)

\* generateDockerfileContent of the analyzer and split variants
generateDockerfileContent(dc) ==
    LET env  == dc.environment
        Arg(key) == <<"ARG ">> \o key
        Env(key) == <<"ENV ">> \o key \o <<"=">> \o env[key]
    IN  << Seg(<<"FROM ">> \o dc.baseImage), Seg(<<>>) >>
        \o (IF Cardinality(DOMAIN env) > 0
            THEN << Seg(<<"# Build arguments">>), RangeSeg([each \in DOMAIN env |-> Arg(each)]), Seg(<<>>) >>
            ELSE <<>>)
        \o SliceSegs(dc.commands)
        \o (IF Cardinality(DOMAIN env) > 0
            THEN << Seg(<<>>), Seg(<<"# Environment variables">>), RangeSeg([each \in DOMAIN env |-> Env(each)]) >>
            ELSE <<>>)

\* generateDockerfileContent of the simple variant: no build arguments
generateDockerfileContentSimple(dc) ==
    LET env  == dc.environment
        Env(key) == <<"ENV ">> \o key \o <<"=">> \o env[key]
    IN  << Seg(<<"FROM ">> \o dc.baseImage), Seg(<<>>) >>
        \o SliceSegs(dc.commands)
        \o (IF Cardinality(DOMAIN env) > 0
            THEN << Seg(<<>>), Seg(<<"# Environment variables">>), RangeSeg([each \in DOMAIN env |-> Env(each)]) >>
            ELSE <<>>)

\* generateComposeContent of the analyzer variant (u two spaces) and
\* GenerateComposeContent of the split variant (u a tab)
generateComposeContent(dc, u) ==
    LET env        == dc.environment
        secrets    == {key \in DOMAIN env : isSecretVariable(key)}
        envVars    == (DOMAIN env) \ secrets
        Top(key)   == Ind(u, 1) \o ToLower(key) \o <<":">>
        File(key)  == Ind(u, 2) \o <<"file: .env">>
        Port(port) == Ind(u, 3) \o <<"- ">> \o port
        Plain(key) == Ind(u, 3) \o <<"- ">> \o key \o <<"=">> \o env[key]
        Ref(key)   == Ind(u, 3) \o <<"- ">> \o ToLower(key)
    IN  << Seg(<<"version: '3.8'">>), Seg(<<>>) >>
        \o (IF Cardinality(DOMAIN dc.services) > 0 /\ hasSecrets(dc)
            THEN << Seg(<<"secrets:">>),
                    BagAdd(RangeSeg([each \in secrets |-> Top(each)]), RangeSeg([each \in secrets |-> File(each)])),
                    Seg(<<>>) >>
            ELSE <<>>)
        \o << Seg(<<"services:">>),
              Seg(Ind(u, 1) \o <<"app:">>),
              Seg(Ind(u, 2) \o <<"image: ">> \o dc.baseImage),
              Seg(Ind(u, 2) \o <<"build:">>),
              Seg(Ind(u, 3) \o <<"context: .">>) >>
        \o (IF Len(dc.ports) > 0
            THEN << Seg(Ind(u, 2) \o <<"ports:">>) >> \o SliceSegs([i \in DOMAIN dc.ports |-> Port(dc.ports[i])])
            ELSE <<>>)
        \o (IF Cardinality(DOMAIN env) > 0 /\ envVars # {}
            THEN << Seg(Ind(u, 2) \o <<"environment:">>), RangeSeg([each \in envVars |-> Plain(each)]) >>
            ELSE <<>>)
        \o (IF Cardinality(DOMAIN env) > 0 /\ secrets # {}
            THEN << Seg(Ind(u, 2) \o <<"secrets:">>), RangeSeg([each \in secrets |-> Ref(each)]) >>
            ELSE <<>>)

\* generateComposeContent of the simple variant: every key is a plain variable
generateComposeContentSimple(dc) ==
    LET env        == dc.environment
        u          == "  "
        Port(port) == Ind(u, 3) \o <<"- ">> \o port
        Plain(key) == Ind(u, 3) \o <<"- ">> \o key \o <<"=">> \o env[key]
    IN  << Seg(<<"version: '3.8'">>), Seg(<<>>),
           Seg(<<"services:">>),
           Seg(Ind(u, 1) \o <<"app:">>),
           Seg(Ind(u, 2) \o <<"image: ">> \o dc.baseImage),
           Seg(Ind(u, 2) \o <<"build:">>),
           Seg(Ind(u, 3) \o <<"context: .">>) >>
        \o (IF Len(dc.ports) > 0
            THEN << Seg(Ind(u, 2) \o <<"ports:">>) >> \o SliceSegs([i \in DOMAIN dc.ports |-> Port(dc.ports[i])])
            ELSE <<>>)
        \o (IF Cardinality(DOMAIN env) > 0
            THEN << Seg(Ind(u, 2) \o <<"environment:">>), RangeSeg([each \in DOMAIN env |-> Plain(each)]) >>
            ELSE <<>>)

----------------------------------------------------------------------------
(* The docktool variant: pkg/detect and pkg/generate *)

\* the top-level regular files os.ReadDir lists, in its (sorted) order
TopLevelFiles(listing) ==
    SelectSeq(listing, LAMBDA path : "/" \notin Range(path))

\* mutant: build.gradle is a marker too, of a type no switch has a case for
TypeOfName_Gradle(name) ==
    IF name = <<"p","a","c","k","a","g","e",".","j","s","o","n">> THEN <<"nodejs">>
    ELSE IF name = <<"p","o","m",".","x","m","l">> THEN <<"java">>
    ELSE IF name = <<"b","u","i","l","d",".","g","r","a","d","l","e">> THEN <<"gradle">>
    ELSE IF name = <<"r","e","q","u","i","r","e","m","e","n","t","s",".","t","x","t">> THEN <<"python">>
    ELSE IF name = <<"G","e","m","f","i","l","e">> THEN <<"ruby">>
    ELSE IF name = <<"g","o",".","m","o","d">> THEN <<"go">>
    ELSE IF name = <<"c","o","m","p","o","s","e","r",".","j","s","o","n">> THEN <<"php">>
    ELSE <<>>

\* the project type of one directory entry's name, "" for any other name
TypeOfName(name) ==
    IF name = <<"p","a","c","k","a","g","e",".","j","s","o","n">> THEN <<"nodejs">>
    ELSE IF name = <<"p","o","m",".","x","m","l">> THEN <<"java">>
    ELSE IF name = <<"r","e","q","u","i","r","e","m","e","n","t","s",".","t","x","t">> THEN <<"python">>
    ELSE IF name = <<"G","e","m","f","i","l","e">> THEN <<"ruby">>
    ELSE IF name = <<"g","o",".","m","o","d">> THEN <<"go">>
    ELSE IF name = <<"c","o","m","p","o","s","e","r",".","j","s","o","n">> THEN <<"php">>
    ELSE <<>>

\* DetectProjectType after a successful ReadDir: the type of the first entry
\* whose name is a marker, or the error "unable to detect project type"
DetectProjectType(listing) ==
    LET top == TopLevelFiles(listing)
        hit == {i \in DOMAIN top : TypeOfName(top[i]) # <<>>}
    IN  IF hit = {} THEN [type |-> <<>>, err |-> TRUE]
        ELSE [type |-> TypeOfName(top[CHOOSE i \in hit : \A j \in hit : i <= j]),
              err  |-> FALSE]

\* strings.SplitN(line, "=", 2) applied by readEnvFile to one line
ReadEnvLine(line, envVars) ==
    IF HasPrefix(line, <<"#">>) \/ Trim(line, SpaceChars) = <<>> \/ "=" \notin Range(line)
    THEN envVars
    ELSE LET eq == LeadLen(line, Range(line) \ {"="}) + 1
         IN  MapSet(envVars, SubSeq(line, 1, eq - 1), SubSeq(line, eq + 1, Len(line)))

RECURSIVE ReadEnvLines(_, _)
ReadEnvLines(lines, envVars) ==
    IF lines = <<>> THEN envVars
    ELSE ReadEnvLines(Tail(lines), ReadEnvLine(Head(lines), envVars))

\* mutant: a .env that cannot be read counts as an empty one
readEnvFile_IgnoresErrors(file) ==
    IF ~file.exists \/ file.err # "none" THEN [envVars |-> EmptyMap, err |-> FALSE]
    ELSE [envVars |-> ReadEnvLines(file.lines, EmptyMap), err |-> FALSE]

\* readEnvFile: a missing file is an empty map; any other failure is an error
readEnvFile(file) ==
    IF ~file.exists THEN [envVars |-> EmptyMap, err |-> FALSE]
    ELSE IF file.err # "none" THEN [envVars |-> EmptyMap, err |-> TRUE]
    ELSE [envVars |-> ReadEnvLines(file.lines, EmptyMap), err |-> FALSE]

\* the %s of a Dockerfile template followed by its newline
DockerfileEnvSection(envVars) ==
    LET Env(key) == <<"ENV ">> \o key \o <<"=">> \o envVars[key]
    IN  (IF DOMAIN envVars # {} THEN << RangeSeg([each \in DOMAIN envVars |-> Env(each)]) >> ELSE <<>>)
        \o << Seg(<<>>) >>

getDockerfileContent(type, envVars) ==
    LET env == DockerfileEnvSection(envVars)
        T(before, after) == [text |-> Lits(before) \o env \o Lits(after), err |-> FALSE]
    IN  IF type = <<"nodejs">> THEN
            T(<<"FROM node:18-alpine", "WORKDIR /app", "COPY package*.json ./",
                "RUN npm install", "COPY . .">>,
              <<"EXPOSE 3000", "CMD [\"node\", \"index.js\"]", "    ">>)
        ELSE IF type = <<"java">> THEN
            T(<<"FROM openjdk:11-jre-slim", "WORKDIR /app", "COPY . .">>,
              <<"RUN ./mvnw clean package", "CMD [\"java\", \"-jar\", \"target/myapp.jar\"]", "    ">>)
        ELSE IF type = <<"python">> THEN
            T(<<"FROM python:3.8-slim", "WORKDIR /app", "COPY requirements.txt .",
                "RUN pip install -r requirements.txt", "COPY . .">>,
              <<"CMD [\"python\", \"app.py\"]", "    ">>)
        ELSE IF type = <<"ruby">> THEN
            T(<<"FROM ruby:2.7", "WORKDIR /app", "COPY Gemfile* .", "RUN bundle install",
                "COPY . .">>,
              <<"CMD [\"ruby\", \"app.rb\"]", "    ">>)
        ELSE IF type = <<"go">> THEN
            T(<<"FROM golang:1.18-alpine", "WORKDIR /app", "COPY go.mod ./", "COPY go.sum ./",
                "RUN go mod download", "COPY . .">>,
              <<"RUN go build -o /dockerapp", "EXPOSE 8080", "CMD [\"/dockerapp\"]", "    ">>)
        ELSE IF type = <<"php">> THEN
            T(<<"FROM php:7.4-cli", "WORKDIR /app", "COPY composer.json composer.lock ./",
                "RUN curl -sS https://getcomposer.org/install | php -- --install-dir=/usr/local/bin --filename=composer",
                "RUN comoser install", "COPY . .">>,
              <<"CMD [\"php\", \"./your-script.php\"]">>)
        ELSE [text |-> <<>>, err |-> TRUE]

\* the %s of a compose template followed by its newline
ComposeEnvSection(envVars) ==
    LET Env(key) == <<"       - ">> \o key \o <<"=">> \o envVars[key]
    IN  (IF Cardinality(DOMAIN envVars) > 0
         THEN << Seg(<<"    environment:">>), RangeSeg([each \in DOMAIN envVars |-> Env(each)]) >>
         ELSE <<>>)
        \o << Seg(<<>>) >>

getDockerComposeContent(type, envVars) ==
    LET env == ComposeEnvSection(envVars)
        T(port) == [text |-> Lits(<<"version: '3'", "services:", "  app:", "    build: .",
                                    "    ports:", port>>) \o env \o Lits(<<"    ">>),
                    err  |-> FALSE]
    IN  IF type = <<"nodejs">> THEN T("      - \"3000:3000\"")
        ELSE IF type = <<"java">> THEN T("      - \"8080:8080\"")
        ELSE IF type = <<"python">> THEN T("      - \"5000:5000\"")
        ELSE IF type = <<"ruby">> THEN T("      - \"3000:3000\"")
        ELSE IF type = <<"go">> THEN T("      - \"8080:8080\"")
        ELSE IF type = <<"php">> THEN T("      - \"8000:8000")
        ELSE [text |-> <<>>, err |-> TRUE]

\* mutant: the failure of the second write is not returned
GenerateDockerFiles_SwallowsSecond(ed, type, ok1, ok2) ==
    LET env == readEnvFile(ed[1])
        df  == getDockerfileContent(type, env.envVars)
        dcc == getDockerComposeContent(type, env.envVars)
        none == [wroteDockerfile |-> FALSE, dockerfile |-> <<>>,
                 wroteCompose |-> FALSE, compose |-> <<>>, err |-> TRUE]
    IN  IF env.err \/ df.err \/ dcc.err \/ ~ok1 THEN none
        ELSE [wroteDockerfile |-> TRUE, dockerfile |-> df.text,
              wroteCompose |-> ok2, compose |-> IF ok2 THEN dcc.text ELSE <<>>,
              err |-> FALSE]

\* GenerateDockerFiles: read .env, render both texts, then write Dockerfile
\* and docker-compose.yml; ok1 and ok2 say whether each write succeeds.  The
\* result names the files written and whether an error is returned.
GenerateDockerFiles(ed, type, ok1, ok2) ==
    LET env == readEnvFile(ed[1])
        df  == getDockerfileContent(type, env.envVars)
        dcc == getDockerComposeContent(type, env.envVars)
        none == [wroteDockerfile |-> FALSE, dockerfile |-> <<>>,
                 wroteCompose |-> FALSE, compose |-> <<>>, err |-> TRUE]
    IN  IF env.err \/ df.err \/ dcc.err \/ ~ok1 THEN none
        ELSE IF ~ok2 THEN [none EXCEPT !.wroteDockerfile = TRUE, !.dockerfile = df.text]
        ELSE [wroteDockerfile |-> TRUE, dockerfile |-> df.text,
              wroteCompose |-> TRUE, compose |-> dcc.text, err |-> FALSE]

----------------------------------------------------------------------------
(* The project directory *)

\* the project files a root may hold, in the order filepath.Walk visits them
Universe ==
    << <<"G","e","m","f","i","l","e">>, <<"P","i","p","f","i","l","e">>, <<"R","E","A","D","M","E",".","m","d">>, <<"b","u","i","l","d",".","g","r","a","d","l","e">>, <<"c","o","m","p","o","s","e","r",".","j","s","o","n">>,
       <<"g","o",".","m","o","d">>, <<"i","n","d","e","x",".","p","h","p">>, <<"p","a","c","k","a","g","e",".","j","s","o","n">>, <<"p","o","m",".","x","m","l">>, <<"r","e","q","u","i","r","e","m","e","n","t","s",".","t","x","t">>,
       <<"s","u","b","/","G","o",".","M","o","d">> >>

\* the lines an env file may hold
EnvLinePool ==
    { <<"D","B","_","P","A","S","S","W","O","R","D","=","h","u","n","t","e","r","2">>, <<"R","A","I","L","S","_","E","N","V","=","t","e","s","t">>, <<"P","O","R","T"," ","="," ","'","8","0","8","0","'">>, <<"P","O","R","T","=","9">>,
      <<"A","P","I","_","K","E","Y","=","a","b","c">>, <<"a","p","i","_","k","e","y","=","x","y","z">>, <<"#"," ","n","o","t","e">> }

NoFile == [exists |-> FALSE, lines |-> <<>>, err |-> "none"]

EnvFile(lines, err) == [exists |-> TRUE, lines |-> lines, err |-> err]

\* an output file that was never written, and one holding text
NoOutput == [exists |-> FALSE, text |-> <<>>]

Written(text) == [exists |-> TRUE, text |-> text]

SeqsUpTo(S, n) == UNION {[1..k -> S] : k \in 0..n}

\* the sub-sequences of Universe with at most n files
FileSets(n) ==
    { SelectSeq(Universe, LAMBDA path : path \in {Universe[i] : i \in I}) :
        I \in {J \in SUBSET (DOMAIN Universe) : Cardinality(J) <= n} }

OnlyDotEnv(file) == << file, NoFile, NoFile, NoFile >>

\* a few projects as far as env files go: none, the one of scenario D, an
\* unreadable .env, only .env.example, and .env shadowing .env.example
FewEnvDisks ==
    { OnlyDotEnv(NoFile),
      OnlyDotEnv(EnvFile(<< <<"D","B","_","P","A","S","S","W","O","R","D","=","h","u","n","t","e","r","2">> >>, "none")),
      OnlyDotEnv(EnvFile(<<>>, "open")),
      << NoFile, EnvFile(<< <<"R","A","I","L","S","_","E","N","V","=","t","e","s","t">> >>, "none"), NoFile, NoFile >>,
      << EnvFile(<< <<"P","O","R","T","=","9">> >>, "none"), EnvFile(<< <<"A","P","I","_","K","E","Y","=","a","b","c">> >>, "none"),
         NoFile, NoFile >> }

\* a .env of at most n lines, read whole or failing in the scanner after the
\* lines it holds
DotEnvDisks(n) ==
    { OnlyDotEnv(EnvFile(lines, "none")) : lines \in SeqsUpTo(EnvLinePool, n) }
    \cup { OnlyDotEnv(EnvFile(lines, "scan")) : lines \in SeqsUpTo(EnvLinePool, n - 1) }

\* the projects a variant is run on: up to MaxFiles files with one of the few
\* env disks and, for the two variants whose behaviour depends on the lines
\* of .env, at most one file with a .env of up to MaxEnvLines lines.  (The
\* simple variant reads no env file; the split variant is the analyzer variant
\* but for the indentation of its compose text.)
Projects(p) ==
    (FileSets(MaxFiles) \X FewEnvDisks)
    \cup (IF p \in {"analyzer", "docktool"}
          THEN FileSets(1) \X DotEnvDisks(MaxEnvLines)
          ELSE {})

\* what the walk of the root lists: the env files, whose names sort first,
\* then the project files
Listing(fs, ed) ==
    SelectSeq(EnvFileNames, LAMBDA name : \E i \in DOMAIN ed : EnvFileNames[i] = name /\ ed[i].exists)
    \o fs

----------------------------------------------------------------------------
(* The programs *)

AnalyzerProgs == {"analyzer", "split", "simple"}

Progs == AnalyzerProgs \cup {"docktool"}

\* the indentation unit of the compose renderer of a variant
IndentOf(p) == IF p = "split" THEN "\t" ELSE "  "

Init ==
    /\ prog \in Progs
    /\ composeFlag \in (IF prog = "docktool" THEN {FALSE} ELSE BOOLEAN)
    /\ \E project \in Projects(prog) :
           /\ diskFiles = project[1]
           /\ envDisk = project[2]
    /\ pc = "start"
    /\ files = <<>>
    /\ envConfig = NewEnvConfig
    /\ config = NewDockerConfig(FALSE)
    /\ projectType = <<>>
    /\ outDockerfile = NoOutput
    /\ outCompose = NoOutput
    /\ exitCode = -1
    /\ output = <<>>
    /\ runs = 0
    /\ dirArg \in (IF prog = "docktool" /\ diskFiles = <<>> /\ envDisk = OnlyDotEnv(NoFile)
                   THEN BOOLEAN ELSE {TRUE})

Exit(code, message) ==
    /\ pc' = "exit"
    /\ exitCode' = code
    /\ output' = Append(output, message)

\* Analyze succeeds: pa.files is the listing of the root
AnalyzeOk ==
    /\ pc = "start"
    /\ prog \in AnalyzerProgs
    /\ files' = Listing(diskFiles, envDisk)
    /\ pc' = "analyzed"
    /\ UNCHANGED <<prog, composeFlag, diskFiles, envDisk, envConfig, config, projectType,
                   outDockerfile, outCompose, exitCode, output, runs, dirArg>>

\* mutant: main prints the error of the walk and goes on
AnalyzeErr_Continues ==
    /\ pc = "start"
    /\ prog \in AnalyzerProgs
    /\ \E n \in 0..Len(Listing(diskFiles, envDisk)) :
           files' = SubSeq(Listing(diskFiles, envDisk), 1, n)
    /\ output' = Append(output, "Error analyzing project")
    /\ pc' = "analyzed"
    /\ UNCHANGED <<prog, composeFlag, diskFiles, envDisk, envConfig, config, projectType,
                   outDockerfile, outCompose, exitCode, runs, dirArg>>

\* the walk fails after n files: main prints the error and exits with 1
AnalyzeErr ==
    /\ pc = "start"
    /\ prog \in AnalyzerProgs
    /\ \E n \in 0..Len(Listing(diskFiles, envDisk)) :
           files' = SubSeq(Listing(diskFiles, envDisk), 1, n)
    /\ Exit(1, "Error analyzing project")
    /\ UNCHANGED <<prog, composeFlag, diskFiles, envDisk, envConfig, config, projectType,
                   outDockerfile, outCompose, runs, dirArg>>

\* main calls GenerateDockerConfig
Generate ==
    /\ pc = "analyzed"
    /\ prog \in {"analyzer", "split"}
    /\ LET r == GenerateDockerConfig(envDisk, files, envConfig, composeFlag)
       IN  /\ config' = r.config
           /\ envConfig' = r.ec
           /\ output' = IF r.warned
                        THEN Append(output, "Warning: Error detecting environment variables")
                        ELSE output
    /\ runs' = runs + 1
    /\ pc' = "generated"
    /\ UNCHANGED <<prog, composeFlag, diskFiles, envDisk, files, projectType,
                   outDockerfile, outCompose, exitCode, dirArg>>

GenerateSimple ==
    /\ pc = "analyzed"
    /\ prog = "simple"
    /\ config' = GenerateDockerConfigSimple(files, composeFlag)
    /\ pc' = "generated"
    /\ UNCHANGED <<prog, composeFlag, diskFiles, envDisk, files, envConfig, projectType,
                   outDockerfile, outCompose, exitCode, output, runs, dirArg>>

\* mutant: the image-build recipe is written whatever the flag says
SaveToFile_IgnoresFlag(dc, p) ==
    [name    |-> "Dockerfile",
     content |-> IF p = "simple" THEN generateDockerfileContentSimple(dc)
                 ELSE generateDockerfileContent(dc)]

\* SaveToFile: the one file the configuration asks for, and its content
SaveToFile(dc, p) ==
    IF dc.isCompose
    THEN [name    |-> "docker-compose.yml",
          content |-> IF p = "simple" THEN generateComposeContentSimple(dc)
                      ELSE generateComposeContent(dc, IndentOf(p))]
    ELSE [name    |-> "Dockerfile",
          content |-> IF p = "simple" THEN generateDockerfileContentSimple(dc)
                      ELSE generateDockerfileContent(dc)]

\* main calls SaveToFile and the write succeeds
SaveOk ==
    /\ pc = "generated"
    /\ LET w == SaveToFile(config, prog)
       IN  /\ outDockerfile' = IF w.name = "Dockerfile" THEN Written(w.content) ELSE outDockerfile
           /\ outCompose' = IF w.name = "docker-compose.yml" THEN Written(w.content) ELSE outCompose
    /\ Exit(0, "Docker configuration generated successfully!")
    /\ UNCHANGED <<prog, composeFlag, diskFiles, envDisk, files, envConfig, config,
                   projectType, runs, dirArg>>

\* main calls SaveToFile and ioutil.WriteFile fails
SaveErr ==
    /\ pc = "generated"
    /\ Exit(1, "Error saving configuration")
    /\ UNCHANGED <<prog, composeFlag, diskFiles, envDisk, files, envConfig, config,
                   projectType, outDockerfile, outCompose, runs, dirArg>>

\* docktool without its argument: the usage line, exit code 1
Usage ==
    /\ pc = "start"
    /\ prog = "docktool"
    /\ ~dirArg
    /\ Exit(1, "Usage: docktool <project-directory>")
    /\ UNCHANGED <<prog, composeFlag, diskFiles, envDisk, files, envConfig, config,
                   projectType, outDockerfile, outCompose, runs, dirArg>>

\* docktool: os.ReadDir fails
DetectReadErr ==
    /\ pc = "start"
    /\ prog = "docktool"
    /\ dirArg
    /\ Exit(1, "Error detecting project type: cannot read the directory")
    /\ UNCHANGED <<prog, composeFlag, diskFiles, envDisk, files, envConfig, config,
                   projectType, outDockerfile, outCompose, runs, dirArg>>

\* docktool: the directory is read and DetectProjectType returns
Detect ==
    /\ pc = "start"
    /\ prog = "docktool"
    /\ dirArg
    /\ LET r == DetectProjectType(Listing(diskFiles, envDisk))
       IN  IF r.err
           THEN /\ Exit(1, "Error detecting project type: unable to detect project type")
                /\ UNCHANGED projectType
           ELSE /\ projectType' = r.type
                /\ pc' = "detected"
                /\ output' = Append(output, "Detect project type")
                /\ UNCHANGED exitCode
    /\ UNCHANGED <<prog, composeFlag, diskFiles, envDisk, files, envConfig, config,
                   outDockerfile, outCompose, runs, dirArg>>

\* docktool: main calls GenerateDockerFiles; each write succeeds or fails
GenerateFiles ==
    /\ pc = "detected"
    /\ \E ok1, ok2 \in BOOLEAN :
        LET r == GenerateDockerFiles(envDisk, projectType, ok1, ok2)
        IN  /\ outDockerfile' = IF r.wroteDockerfile THEN Written(r.dockerfile) ELSE outDockerfile
            /\ outCompose' = IF r.wroteCompose THEN Written(r.compose) ELSE outCompose
            /\ IF r.err THEN Exit(1, "Error generating Docker files")
               ELSE Exit(0, "Docker files generated successfully!")
    /\ UNCHANGED <<prog, composeFlag, diskFiles, envDisk, files, envConfig, config,
                   projectType, runs, dirArg>>

Next ==
    \/ AnalyzeOk
    \/ AnalyzeErr
    \/ Generate
    \/ GenerateSimple
    \/ SaveOk
    \/ SaveErr
    \/ Usage
    \/ DetectReadErr
    \/ Detect
    \/ GenerateFiles

Spec == Init /\ [][Next]_vars

----------------------------------------------------------------------------
(* The collector called again on the same analyzer *)

\* one more call of pa.detectEnvironmentVariables()
Redetect ==
    /\ pc = "analyzed"
    /\ prog = "analyzer"
    /\ runs < MaxRuns
    /\ envConfig' = detectEnvironmentVariables(envDisk, files, envConfig).ec
    /\ runs' = runs + 1
    /\ UNCHANGED <<prog, pc, composeFlag, diskFiles, envDisk, files, config, projectType,
                   outDockerfile, outCompose, exitCode, output, dirArg>>

InitCollect == Init /\ prog = "analyzer" /\ composeFlag = FALSE

NextCollect == AnalyzeOk \/ Redetect

SpecCollect == InitCollect /\ [][NextCollect]_vars

----------------------------------------------------------------------------
(* Vocabulary of the properties *)

ProfileNames ==
    {"NodeJS", "Python", "Go", "JavaMaven", "JavaGradle", "Ruby", "PHP", "Generic"}

\* the template of a profile: what its configure function sets
TemplateOf(name) ==
    LET dc == NewDockerConfig(FALSE)
    IN  CASE name = "NodeJS"     -> configureNodeJS(dc)
          [] name = "Python"     -> configurePython(dc)
          [] name = "Go"         -> configureGo(dc)
          [] name = "JavaMaven"  -> configureMavenJava(dc)
          [] name = "JavaGradle" -> configureGradleJava(dc)
          [] name = "Ruby"       -> configureRuby(dc)
          [] name = "PHP"        -> configurePHP(dc)
          [] name = "Generic"    -> configureGeneric(dc)

\* the profiles whose base image, instruction list and ports dc carries
SelectedProfiles(dc) ==
    { name \in ProfileNames :
        /\ dc.baseImage = TemplateOf(name).baseImage
        /\ dc.commands = TemplateOf(name).commands
        /\ dc.ports = TemplateOf(name).ports }

\* the priority order of the ecosystems and the marker of each
PriorityOrder == << "NodeJS", "Python", "Go", "Java", "Ruby", "PHP" >>

MarkerPresent(ecosystem, fs) ==
    CASE ecosystem = "NodeJS" -> hasFile(fs, <<"p","a","c","k","a","g","e",".","j","s","o","n">>)
      [] ecosystem = "Python" -> hasFile(fs, <<"r","e","q","u","i","r","e","m","e","n","t","s",".","t","x","t">>) \/ hasFile(fs, <<"P","i","p","f","i","l","e">>)
      [] ecosystem = "Go"     -> hasFile(fs, <<"g","o",".","m","o","d">>)
      [] ecosystem = "Java"   -> hasFile(fs, <<"p","o","m",".","x","m","l">>) \/ hasFile(fs, <<"b","u","i","l","d",".","g","r","a","d","l","e">>)
      [] ecosystem = "Ruby"   -> hasFile(fs, <<"G","e","m","f","i","l","e">>)
      [] ecosystem = "PHP"    -> hasFile(fs, <<"c","o","m","p","o","s","e","r",".","j","s","o","n">>) \/ hasAnyFile(fs, {<<".","p","h","p">>})

\* the ecosystem of the first marker present, "Generic" when there is none
FirstEcosystem(fs) ==
    LET hits == {i \in DOMAIN PriorityOrder : MarkerPresent(PriorityOrder[i], fs)}
    IN  IF hits = {} THEN "Generic"
        ELSE PriorityOrder[CHOOSE i \in hits : \A j \in hits : i <= j]

\* the profile the priority order asks for
ExpectedProfile(fs) ==
    IF FirstEcosystem(fs) # "Java" THEN FirstEcosystem(fs)
    ELSE IF hasFile(fs, <<"p","o","m",".","x","m","l">>) THEN "JavaMaven"
    ELSE "JavaGradle"

\* GenerateDockerConfig has just returned
Generated == prog \in AnalyzerProgs /\ pc = "generated"

----------------------------------------------------------------------------
(* Properties *)

\* C1: for every FileSet, the configuration GenerateDockerConfig returns
\* carries exactly one profile, the one of the first marker present in the
\* order Node.js, Python, Go, Java, Ruby, PHP, and Generic when no marker is
\* present.
C1_FirstMarkerWins ==
    Generated => SelectedProfiles(config) = {ExpectedProfile(files)}

\* C1 witness: a Ruby marker and a Node.js marker are both present and the
\* Node.js profile is the one selected.
C1_Witness ==
    /\ Generated
    /\ hasFile(files, <<"G","e","m","f","i","l","e">>)
    /\ hasFile(files, <<"p","a","c","k","a","g","e",".","j","s","o","n">>)
    /\ SelectedProfiles(config) = {"NodeJS"}

\* C10: once the Java case is reached, pom.xml (alone or with build.gradle)
\* selects the Maven variant, and the Gradle variant is selected only when
\* build.gradle is present, pom.xml is absent and no marker of higher
\* priority is present.
C10_MavenBeforeGradle ==
    Generated =>
        /\ (FirstEcosystem(files) = "Java" /\ hasFile(files, <<"p","o","m",".","x","m","l">>)
                => SelectedProfiles(config) = {"JavaMaven"})
        /\ ("JavaGradle" \in SelectedProfiles(config)
                => /\ hasFile(files, <<"b","u","i","l","d",".","g","r","a","d","l","e">>)
                   /\ ~hasFile(files, <<"p","o","m",".","x","m","l">>)
                   /\ ~MarkerPresent("NodeJS", files)
                   /\ ~MarkerPresent("Python", files)
                   /\ ~MarkerPresent("Go", files))

\* C10 witness: pom.xml and build.gradle are both present and the Maven
\* variant is selected.
C10_Witness ==
    /\ Generated
    /\ hasFile(files, <<"p","o","m",".","x","m","l">>)
    /\ hasFile(files, <<"b","u","i","l","d",".","g","r","a","d","l","e">>)
    /\ SelectedProfiles(config) = {"JavaMaven"}

----------------------------------------------------------------------------
(* The lists of the app service in a rendered orchestration text *)

\* the segment that follows the first segment made of the line header, the
\* empty segment when the text has no such header
SegmentAfter(text, header) ==
    LET at == {i \in DOMAIN text : text[i] = Seg(header)}
    IN  IF at = {} THEN <<>>
        ELSE LET first == CHOOSE i \in at : \A j \in at : i <= j
             IN  IF first + 1 \in DOMAIN text THEN text[first + 1] ELSE <<>>

RECURSIVE SumCopies(_, _)
SumCopies(seg, lines) ==
    IF lines = {} THEN 0
    ELSE LET l == CHOOSE x \in lines : TRUE
         IN  seg[l] + SumCopies(seg, lines \ {l})

\* the plain environment list and the secrets list of the app service
PlainList(text, u) == SegmentAfter(text, Ind(u, 2) \o <<"environment:">>)

SecretsList(text, u) == SegmentAfter(text, Ind(u, 2) \o <<"secrets:">>)

\* how many entries of the plain list define key, and how many entries of
\* the secrets list name it (lower-cased)
PlainCount(text, u, key) ==
    LET list == PlainList(text, u)
    IN  SumCopies(list, {l \in DOMAIN list :
                            HasPrefix(l, Ind(u, 3) \o <<"- ">> \o key \o <<"=">>)})

SecretCount(text, u, key) ==
    Copies(SecretsList(text, u), Ind(u, 3) \o <<"- ">> \o ToLower(key))

\* a run of the analyzer or split variant has written docker-compose.yml
ComposeWritten ==
    /\ prog \in {"analyzer", "split"}
    /\ pc = "exit"
    /\ exitCode = 0
    /\ composeFlag
    /\ outCompose.exists

\* C2: every key of the environment mapping handed to the synthesizer (the
\* entries of the env file plus the collector's defaults) appears exactly once
\* in the written orchestration text, in the plain environment list of the
\* app service or in its secrets list, never in both and never in neither.
C2_EveryKeyExactlyOnce ==
    ComposeWritten =>
        \A key \in DOMAIN envConfig.variables :
            PlainCount(outCompose.text, IndentOf(prog), key)
                + SecretCount(outCompose.text, IndentOf(prog), key) = 1

\* the project of scenario D: the FileSet {Gemfile} and a .env holding the
\* one line DB_PASSWORD=hunter2
ScenarioD ==
    /\ diskFiles = << <<"G","e","m","f","i","l","e">> >>
    /\ envDisk = OnlyDotEnv(EnvFile(<< <<"D","B","_","P","A","S","S","W","O","R","D","=","h","u","n","t","e","r","2">> >>, "none"))

\* C3: in scenario D the written orchestration text lists db_password in
\* the secrets list of the app service and RAILS_ENV=production in its plain
\* environment list.
C3_ScenarioD ==
    ComposeWritten /\ ScenarioD =>
        /\ SecretCount(outCompose.text, IndentOf(prog), <<"D","B","_","P","A","S","S","W","O","R","D">>) = 1
        /\ Copies(PlainList(outCompose.text, IndentOf(prog)),
                  Ind(IndentOf(prog), 3) \o <<"- ">> \o <<"R","A","I","L","S","_","E","N","V","=","p","r","o","d","u","c","t","i","o","n">>) = 1

\* the collected environment after one call of detectEnvironmentVariables on a
\* fresh analyzer
CollectedOnce == detectEnvironmentVariables(envDisk, files, NewEnvConfig).ec

\* C4: however often detectEnvironmentVariables has run on the same analyzer,
\* the collected environment (the variables mapping and the secrets list)
\* equals the one the first run left.
C4_CollectIdempotent ==
    prog = "analyzer" /\ pc = "analyzed" /\ runs >= 1 => envConfig = CollectedOnce

\* main has reported that the walk of Analyze failed
WalkFailed == prog \in AnalyzerProgs /\ "Error analyzing project" \in Range(output)

\* C5: once the walk of Analyze has failed the run has exited with a non-zero
\* code, GenerateDockerConfig has not been called (no configuration, no
\* collection of the environment) and neither Dockerfile nor
\* docker-compose.yml has been written.
C5_WalkFailureStopsRun ==
    WalkFailed =>
        /\ pc = "exit"
        /\ exitCode # 0
        /\ config = NewDockerConfig(FALSE)
        /\ envConfig = NewEnvConfig
        /\ runs = 0
        /\ ~outDockerfile.exists
        /\ ~outCompose.exists

\* C5 witness: the walk failed after listing a marker file, and the run has
\* exited with code 1.
C5_Witness ==
    /\ WalkFailed
    /\ hasFile(files, <<"p","a","c","k","a","g","e",".","j","s","o","n">>)
    /\ pc = "exit"
    /\ exitCode = 1

\* what tells the two kinds of text apart: the recipe starts with the FROM
\* line, the orchestration text has the services: line
IsRecipe(text) == text # <<>> /\ text[1] = Seg(<<"FROM ">> \o config.baseImage)

IsOrchestration(text) ==
    /\ Seg(<<"services:">>) \in Range(text)
    /\ \E u \in {"  ", "\t"} : Seg(Ind(u, 2) \o <<"image: ">> \o config.baseImage) \in Range(text)

\* C8: in the analyzer variants the -compose flag selects the single output
\* of a run: with the flag Dockerfile is never written and a successful run
\* has written the orchestration text to docker-compose.yml; without it
\* docker-compose.yml is never written and a successful run has written the
\* image-build recipe to Dockerfile.
C8_ComposeFlagSelectsOutput ==
    prog \in AnalyzerProgs =>
        /\ composeFlag =>
              /\ ~outDockerfile.exists
              /\ (pc = "exit" /\ exitCode = 0
                    => outCompose.exists /\ IsOrchestration(outCompose.text))
        /\ ~composeFlag =>
              /\ ~outCompose.exists
              /\ (pc = "exit" /\ exitCode = 0
                    => outDockerfile.exists /\ IsRecipe(outDockerfile.text))
        /\ config.isCompose = (composeFlag /\ config.baseImage # <<>>)

\* C8 witness: a run with -compose has succeeded, docker-compose.yml holds
\* the orchestration text and there is no Dockerfile.
C8_Witness ==
    /\ prog \in AnalyzerProgs
    /\ composeFlag
    /\ pc = "exit"
    /\ exitCode = 0
    /\ outCompose.exists
    /\ IsOrchestration(outCompose.text)
    /\ ~outDockerfile.exists

\* the env file the collector of the analyzer variants reads (the first
\* candidate that exists) is there and cannot be read to its end
FirstEnvFileUnreadable ==
    \E i \in DOMAIN envDisk :
        /\ envDisk[i].exists
        /\ envDisk[i].err # "none"
        /\ \A j \in 1..(i - 1) : ~envDisk[j].exists

\* docktool reads only .env
DotEnvUnreadable == envDisk[1].exists /\ envDisk[1].err # "none"

\* the run has attempted to read an existing env file and the read failed
EnvReadFailed ==
    \/ prog \in {"analyzer", "split"} /\ runs >= 1 /\ FirstEnvFileUnreadable
    \/ prog = "docktool" /\ pc = "exit" /\ projectType # <<>> /\ DotEnvUnreadable

\* C6 as stated: a failed read of an existing env file is fatal; no profile
\* is synthesized, no output file is written and the exit code is non-zero.
C6_ReadFailureIsFatal ==
    EnvReadFailed =>
        /\ config = NewDockerConfig(FALSE)
        /\ ~outDockerfile.exists
        /\ ~outCompose.exists
        /\ (pc = "exit" => exitCode # 0)

\* C6 amended: in docktool a failed read of .env is fatal (error reported,
\* nothing written, exit code 1).  In the analyzer and split variants it is
\* only a warning: the variables read before the failure are kept without
\* the framework defaults, the profile of the FileSet is synthesized all the
\* same, and the run succeeds unless the write fails.
C6_ReadFailureFatalOnlyInDocktool ==
    /\ EnvReadFailed /\ prog = "docktool" =>
          /\ exitCode = 1
          /\ "Error generating Docker files" \in Range(output)
          /\ ~outDockerfile.exists
          /\ ~outCompose.exists
    /\ EnvReadFailed /\ prog \in {"analyzer", "split"} =>
          /\ "Warning: Error detecting environment variables" \in Range(output)
          /\ SelectedProfiles(config) = {ExpectedProfile(files)}
          /\ \A key \in DOMAIN envConfig.variables :
                 \E i \in DOMAIN envDisk : \E n \in DOMAIN envDisk[i].lines :
                     HasPrefix(envDisk[i].lines[n], key)
          /\ (pc = "exit" =>
                \/ exitCode = 0 /\ (outDockerfile.exists \/ outCompose.exists)
                \/ /\ exitCode = 1
                   /\ "Error saving configuration" \in Range(output)
                   /\ ~outDockerfile.exists
                   /\ ~outCompose.exists)

\* C6 witness: the analyzer met an unreadable .env in a Node.js project,
\* warned, and still wrote its output and exited with code 0.
C6_Witness ==
    /\ prog = "analyzer"
    /\ EnvReadFailed
    /\ hasFile(files, <<"p","a","c","k","a","g","e",".","j","s","o","n">>)
    /\ "Warning: Error detecting environment variables" \in Range(output)
    /\ pc = "exit"
    /\ exitCode = 0
    /\ outDockerfile.exists

\* C7 as stated: a run that has ended either produced both output files and
\* reported success, or reported an error.
C7_BothFilesOrError ==
    pc = "exit" =>
        \/ exitCode = 0 /\ outDockerfile.exists /\ outCompose.exists
        \/ exitCode # 0

\* C7 amended: docktool has no partial success: a run that has ended
\* reported success with both files written, or reported an error; when
\* Dockerfile was written and the write of docker-compose.yml failed,
\* Dockerfile stays and the error is reported with exit code 1.  A successful
\* run of the analyzer variants has written exactly one of the two files.
C7_NoPartialSuccessInDocktool ==
    /\ prog = "docktool" /\ pc = "exit" =>
          \/ /\ exitCode = 0
             /\ "Docker files generated successfully!" \in Range(output)
             /\ outDockerfile.exists
             /\ outCompose.exists
          \/ /\ exitCode = 1
             /\ "Docker files generated successfully!" \notin Range(output)
             /\ ~outCompose.exists
             /\ (outDockerfile.exists
                    => "Error generating Docker files" \in Range(output))
    /\ prog \in AnalyzerProgs /\ pc = "exit" /\ exitCode = 0 =>
          outDockerfile.exists # outCompose.exists

\* C7 witness: docktool wrote Dockerfile, the write of docker-compose.yml
\* failed, Dockerfile is still there and the run reported the error.
C7_Witness ==
    /\ prog = "docktool"
    /\ pc = "exit"
    /\ outDockerfile.exists
    /\ ~outCompose.exists
    /\ exitCode = 1
    /\ "Error generating Docker files" \in Range(output)

\* the root was read (the walk, or os.ReadDir, succeeded) and holds no
\* recognized marker file
RootReadWithoutMarker ==
    /\ \/ prog \in AnalyzerProgs /\ pc # "start" /\ ~WalkFailed
       \/ /\ prog = "docktool"
          /\ pc # "start"
          /\ "Usage: docktool <project-directory>" \notin Range(output)
          /\ "Error detecting project type: cannot read the directory" \notin Range(output)
    /\ FirstEcosystem(diskFiles) = "Generic"

\* the marker names DetectProjectType knows, matched exactly and only at the
\* top level of the root
DocktoolMarkers ==
    { <<"p","a","c","k","a","g","e",".","j","s","o","n">>, <<"p","o","m",".","x","m","l">>, <<"r","e","q","u","i","r","e","m","e","n","t","s",".","t","x","t">>, <<"G","e","m","f","i","l","e">>, <<"g","o",".","m","o","d">>,
      <<"c","o","m","p","o","s","e","r",".","j","s","o","n">> }

\* a rendered orchestration text has no ports section
NoPortsSection(text) ==
    \A i \in DOMAIN text : \A l \in DOMAIN text[i] : "ports:" \notin Range(l)

\* C9 as stated: on a readable root without recognized marker no detection
\* error is reported, and a run that has ended fell back to the Generic
\* profile.
C9_NoMarkerNeverFails ==
    RootReadWithoutMarker =>
        /\ "Error detecting project type: unable to detect project type" \notin Range(output)
        /\ (pc = "exit" /\ prog \in AnalyzerProgs => config.baseImage = <<"ubuntu:latest">>)
        /\ (pc = "exit" /\ prog = "docktool"
                => exitCode = 0 \/ "Error generating Docker files" \in Range(output))

\* C9 amended: the analyzer variants fall back to the Generic profile on a
\* readable root without recognized marker (base image ubuntu:latest, no
\* port mappings, no ports section in the orchestration text) and succeed
\* unless the write fails.  docktool reports "unable to detect project
\* type", writes nothing and exits with code 1 whenever the root holds none
\* of its six marker names at the top level.
C9_GenericFallbackOnlyInAnalyzer ==
    /\ RootReadWithoutMarker /\ prog \in AnalyzerProgs /\ pc \in {"generated", "exit"} =>
          /\ config.baseImage = <<"ubuntu:latest">>
          /\ config.ports = <<>>
          /\ config.commands = << <<"WORKDIR /app">>, <<"COPY . .">>, <<"CMD [\"/bin/bash\"]">> >>
          /\ (outCompose.exists => NoPortsSection(outCompose.text))
          /\ (pc = "exit" =>
                \/ exitCode = 0 /\ (outDockerfile.exists \/ outCompose.exists)
                \/ exitCode = 1 /\ "Error saving configuration" \in Range(output))
    /\ /\ prog = "docktool"
       /\ pc # "start"
       /\ "Usage: docktool <project-directory>" \notin Range(output)
       /\ "Error detecting project type: cannot read the directory" \notin Range(output)
       /\ \A i \in DOMAIN diskFiles : diskFiles[i] \notin DocktoolMarkers
       => /\ pc = "exit"
          /\ exitCode = 1
          /\ "Error detecting project type: unable to detect project type" \in Range(output)
          /\ ~outDockerfile.exists
          /\ ~outCompose.exists

\* C9 witness: the analyzer ran with -compose on a root that holds only
\* README.md, wrote an orchestration text of the Generic profile without
\* ports section and exited with code 0.
C9_Witness ==
    /\ prog = "analyzer"
    /\ RootReadWithoutMarker
    /\ diskFiles = << <<"R","E","A","D","M","E",".","m","d">> >>
    /\ pc = "exit"
    /\ exitCode = 0
    /\ outCompose.exists
    /\ NoPortsSection(outCompose.text)
    /\ Seg(Ind("  ", 2) \o <<"image: ">> \o <<"ubuntu:latest">>) \in Range(outCompose.text)

----------------------------------------------------------------------------
(* Secret classification, stated apart from the three classifiers *)

\* the substrings that make a key secret-like
SecretWords ==
    { <<"p","a","s","s","w","o","r","d">>, <<"s","e","c","r","e","t">>, <<"t","o","k","e","n">>, <<"k","e","y">>, <<"a","u","t","h">>, <<"c","r","e","d","e","n","t","i","a","l">>, <<"c","e","r","t">> }

\* key contains one of the substrings, letter case ignored
SecretLike(key) == \E word \in SecretWords : Contains(ToLower(key), word)

\* the entry of the plain environment list for key, and the entry of the
\* secrets list for it
PlainEntry(u, key, value) == Ind(u, 3) \o <<"- ">> \o key \o <<"=">> \o value

SecretEntry(u, key) == Ind(u, 3) \o <<"- ">> \o ToLower(key)

\* how many entries a list holds
Entries(list) == SumCopies(list, DOMAIN list)

\* C11: the written orchestration text partitions the keys of the
\* configuration's environment mapping.  A key that is not secret-like has
\* exactly one entry key=value in the plain environment list and none in the
\* secrets list; a secret-like key has no entry in the plain list and the
\* secrets list holds its lower-cased name once for each key of that name;
\* neither list holds any other entry; the secrets list is there exactly when
\* some key is secret-like, the plain list exactly when some key is not.
C11_RendererPartitionsKeys ==
    ComposeWritten =>
        LET env    == config.environment
            u      == IndentOf(prog)
            text   == outCompose.text
            plain  == PlainList(text, u)
            secret == SecretsList(text, u)
            hidden == {key \in DOMAIN env : SecretLike(key)}
        IN  /\ \A key \in (DOMAIN env) \ hidden :
                   /\ Copies(plain, PlainEntry(u, key, env[key])) = 1
                   /\ PlainCount(text, u, key) = 1
                   /\ Copies(secret, SecretEntry(u, key)) = 0
            /\ \A key \in hidden :
                   /\ PlainCount(text, u, key) = 0
                   /\ Copies(secret, SecretEntry(u, key))
                          = Cardinality({k \in hidden : ToLower(k) = ToLower(key)})
            /\ Entries(plain) = Cardinality((DOMAIN env) \ hidden)
            /\ Entries(secret) = Cardinality(hidden)
            /\ (Seg(Ind(u, 2) \o <<"secrets:">>) \in Range(text)) = (hidden # {})
            /\ (Seg(Ind(u, 2) \o <<"environment:">>) \in Range(text))
                   = ((DOMAIN env) \ hidden # {})

\* C11 witness: an orchestration text was written for a configuration that
\* has a secret-like key and a key that is not, and holds both lists.
C11_Witness ==
    /\ ComposeWritten
    /\ <<"D","B","_","P","A","S","S","W","O","R","D">> \in DOMAIN config.environment
    /\ <<"N","O","D","E","_","E","N","V">> \in DOMAIN config.environment
    /\ Copies(SecretsList(outCompose.text, IndentOf(prog)),
              SecretEntry(IndentOf(prog), <<"D","B","_","P","A","S","S","W","O","R","D">>)) = 1
    /\ Copies(PlainList(outCompose.text, IndentOf(prog)),
              PlainEntry(IndentOf(prog), <<"N","O","D","E","_","E","N","V">>, <<"p","r","o","d","u","c","t","i","o","n">>)) = 1

\* the top-level secrets declaration block of an orchestration text, and the
\* declaration line of key in it
TopLevelSecrets(text) == SegmentAfter(text, <<"secrets:">>)

SecretDeclaration(u, key) == Ind(u, 1) \o ToLower(key) \o <<":">>

\* C12: a written orchestration text whose configuration has a secret-like
\* key holds the top-level secrets block, with a declaration referencing
\* .env for every secret-like key, so that every entry of the app service's
\* secrets list is declared.
C12_SecretsDeclaredAtTopLevel ==
    ComposeWritten /\ (\E key \in DOMAIN config.environment : SecretLike(key)) =>
        LET u     == IndentOf(prog)
            block == TopLevelSecrets(outCompose.text)
        IN  /\ Seg(<<"secrets:">>) \in Range(outCompose.text)
            /\ \A key \in DOMAIN config.environment :
                   SecretLike(key) =>
                       /\ Copies(block, SecretDeclaration(u, key)) >= 1
                       /\ Copies(block, Ind(u, 2) \o <<"file: .env">>) >= 1

----------------------------------------------------------------------------
(* The image-build recipe *)

\* a run of an analyzer variant has written Dockerfile
RecipeWritten ==
    /\ prog \in AnalyzerProgs
    /\ pc = "exit"
    /\ exitCode = 0
    /\ ~composeFlag
    /\ outDockerfile.exists

\* the places of a text that hold a line starting with the word
PlacesOf(text, word) ==
    {i \in DOMAIN text : \E l \in DOMAIN text[i] : l # <<>> /\ l[1] = word}

\* the keys the lines of a text starting with the word name: what follows
\* the word, up to the first = if there is one
KeysOf(text, word) ==
    { SubSeq(l, 2, 1 + LeadLen(Tail(l), Range(l) \ {"="})) :
          l \in {x \in UNION {DOMAIN text[i] : i \in PlacesOf(text, word)} : x[1] = word} }

\* the instruction list stands in the text, verbatim and in its order, after
\* place before and ahead of place after
InstructionsBetween(text, cmds, before, after) ==
    /\ before + Len(cmds) < after
    /\ \A j \in DOMAIN cmds : text[before + j] = Seg(cmds[j])

\* the ENV block: one line key=value per entry, at the end of the text
EnvBlockAtEnd(text, env) ==
    /\ PlacesOf(text, "ENV ") = {Len(text)}
    /\ DOMAIN text[Len(text)] = {<<"ENV ">> \o key \o <<"=">> \o env[key] : key \in DOMAIN env}
    /\ Entries(text[Len(text)]) = Cardinality(DOMAIN env)

\* the ARG block at place at: one value-less line per key
ArgBlockAt(text, env, at) ==
    /\ PlacesOf(text, "ARG ") = {at}
    /\ DOMAIN text[at] = {<<"ARG ">> \o key : key \in DOMAIN env}
    /\ Entries(text[at]) = Cardinality(DOMAIN env)

\* the recipe as C13 describes it
RecipeWithArgs(text, dc) ==
    LET env == dc.environment
    IN  /\ text[1] = Seg(<<"FROM ">> \o dc.baseImage)
        /\ IF DOMAIN env = {}
           THEN /\ PlacesOf(text, "ARG ") = {}
                /\ PlacesOf(text, "ENV ") = {}
                /\ InstructionsBetween(text, dc.commands, 2, Len(text) + 1)
                /\ Len(text) = 2 + Len(dc.commands)
           ELSE \E at \in DOMAIN text :
                /\ 1 < at
                /\ ArgBlockAt(text, env, at)
                /\ InstructionsBetween(text, dc.commands, at + 1, Len(text))
                /\ EnvBlockAtEnd(text, env)
                /\ KeysOf(text, "ARG ") = KeysOf(text, "ENV ")
                /\ KeysOf(text, "ARG ") = DOMAIN env

\* the recipe of the first version of the program: no ARG line at all
RecipeWithoutArgs(text, dc) ==
    LET env == dc.environment
    IN  /\ text[1] = Seg(<<"FROM ">> \o dc.baseImage)
        /\ PlacesOf(text, "ARG ") = {}
        /\ InstructionsBetween(text, dc.commands, 2, Len(text) + 1)
        /\ IF DOMAIN env = {}
           THEN PlacesOf(text, "ENV ") = {} /\ Len(text) = 2 + Len(dc.commands)
           ELSE EnvBlockAtEnd(text, env) /\ KeysOf(text, "ENV ") = DOMAIN env

\* C13 as stated: every written recipe has the FROM line, then, exactly when
\* the environment mapping is not empty, one value-less ARG line per key,
\* then the instruction list verbatim, then, exactly when the mapping is not
\* empty, one ENV key=value line per entry; the ARG keys are the ENV keys.
C13_RecipeOrder ==
    RecipeWritten => RecipeWithArgs(outDockerfile.text, config)

\* C13 amended: the recipe of the analyzer and split variants is as stated;
\* the recipe of the first version (src/main.go 263-279) has the same FROM
\* line, instruction list and ENV block but never an ARG block.
C13_RecipeOrderByVariant ==
    RecipeWritten =>
        IF prog = "simple" THEN RecipeWithoutArgs(outDockerfile.text, config)
        ELSE RecipeWithArgs(outDockerfile.text, config)

\* C13 witness: the analyzer wrote a recipe for a configuration with two
\* environment entries, with an ARG line and an ENV line for each.
C13_Witness ==
    /\ RecipeWritten
    /\ prog = "analyzer"
    /\ DOMAIN config.environment = {<<"N","O","D","E","_","E","N","V">>, <<"P","O","R","T">>}
    /\ KeysOf(outDockerfile.text, "ARG ") = {<<"N","O","D","E","_","E","N","V">>, <<"P","O","R","T">>}
    /\ KeysOf(outDockerfile.text, "ENV ") = {<<"N","O","D","E","_","E","N","V">>, <<"P","O","R","T">>}

----------------------------------------------------------------------------
(* The classifier applied to the key of a one-line .env *)

\* keys an env file may define, in upper, lower and mixed case, some holding
\* a secret word as part of a longer word, some close to one
KeyPool ==
    { <<"D","B","_","P","A","S","S","W","O","R","D">>, <<"a","p","i","K","e","y">>, <<"A","U","T","H","_","T","O","K","E","N">>, <<"P","O","R","T">>, <<"N","O","D","E","_","E","N","V">>, <<"M","Y","_","C","E","R","T">>,
      <<"C","r","e","d","e","n","t","i","a","l","_","I","D">>, <<"s","e","c","r","e","t">>, <<"M","O","N","K","E","Y">>, <<"H","O","S","T">>, <<"T","O","K","E","_","N">>, <<"P","A","S","S","_","W","O","R","D">>,
      <<"A","U","T","H","O","R">> }

\* values, one of them a secret word itself
ValuePool == { <<"1">>, <<"t","o","k","e","n">> }

InitClassify ==
    /\ prog = "analyzer"
    /\ composeFlag = FALSE
    /\ diskFiles \in FileSets(1)
    /\ \E key \in KeyPool : \E value \in ValuePool :
           envDisk = OnlyDotEnv(EnvFile(<< key \o <<"=">> \o value >>, "none"))
    /\ pc = "start"
    /\ files = <<>>
    /\ envConfig = NewEnvConfig
    /\ config = NewDockerConfig(FALSE)
    /\ projectType = <<>>
    /\ outDockerfile = NoOutput
    /\ outCompose = NoOutput
    /\ exitCode = -1
    /\ output = <<>>
    /\ runs = 0
    /\ dirArg = TRUE

SpecClassify == InitClassify /\ [][NextCollect]_vars

\* the key the .env of the root defines
KeyOfDotEnv == MatchVariable(envDisk[1].lines[1]).key

\* the classification the spec's scenarios give by name
NamedExamples ==
    (<<"D","B","_","P","A","S","S","W","O","R","D">> :> TRUE) @@ (<<"a","p","i","K","e","y">> :> TRUE) @@ (<<"A","U","T","H","_","T","O","K","E","N">> :> TRUE)
    @@ (<<"P","O","R","T">> :> FALSE) @@ (<<"N","O","D","E","_","E","N","V">> :> FALSE)

\* C14: once the collector has read the .env, its key is recorded as a secret
\* exactly when it contains, letter case ignored, one of password, secret,
\* token, key, auth, credential, cert, whatever its value; the renderer's
\* classifier decides the same; DB_PASSWORD, apiKey and AUTH_TOKEN are
\* secret-like, PORT and NODE_ENV are not.
C14_SecretIffSubstring ==
    prog = "analyzer" /\ runs >= 1 /\ envDisk[1].exists /\ Len(envDisk[1].lines) = 1 =>
        LET key == KeyOfDotEnv
        IN  /\ key \in DOMAIN envConfig.variables
            /\ (key \in Range(envConfig.secrets)) = SecretLike(key)
            /\ isSecretVariable(key) = SecretLike(key)
            /\ isLikelySecret(key, <<"1">>) = isLikelySecret(key, <<"t","o","k","e","n">>)
            /\ key \in DOMAIN NamedExamples =>
                   /\ (key \in Range(envConfig.secrets)) = NamedExamples[key]
                   /\ isSecretVariable(key) = NamedExamples[key]

\* C14 witness: the .env defined apiKey with a plain value and the collector
\* recorded it as a secret.
C14_Witness ==
    /\ runs >= 1
    /\ envDisk[1].lines = << <<"a","p","i","K","e","y","=","1">> >>
    /\ <<"a","p","i","K","e","y">> \in Range(envConfig.secrets)
    /\ isSecretVariable(<<"a","p","i","K","e","y">>)

----------------------------------------------------------------------------
(* Scenarios A and B *)

\* GenerateDockerConfig has returned in a run of an analyzer variant
Synthesized == prog \in AnalyzerProgs /\ pc \in {"generated", "exit"} /\ ~WalkFailed

\* the root holds exactly the one project file and no env file
RootIsOnly(marker) == diskFiles = << marker >> /\ envDisk = OnlyDotEnv(NoFile)

\* the first port published by the app service in an orchestration text
PortsList(text, u) == SegmentAfter(text, Ind(u, 2) \o <<"ports:">>)

\* C15: in scenario A (FileSet {package.json}, no env file) the
\* configuration has base image node:18-alpine, its instruction list holds
\* RUN npm install ahead of COPY . . and holds EXPOSE 3000, a written recipe
\* starts FROM node:18-alpine, and a written orchestration text publishes
\* port 3000:3000.
C15_ScenarioA ==
    Synthesized /\ RootIsOnly(<<"p","a","c","k","a","g","e",".","j","s","o","n">>) =>
        /\ config.baseImage = <<"node:18-alpine">>
        /\ \E i, j \in DOMAIN config.commands :
               /\ i < j
               /\ config.commands[i] = <<"RUN npm install">>
               /\ config.commands[j] = <<"COPY . .">>
        /\ <<"EXPOSE 3000">> \in Range(config.commands)
        /\ config.ports = << <<"3000:3000">> >>
        /\ outDockerfile.exists =>
               /\ outDockerfile.text[1] = Seg(<<"FROM ", "node:18-alpine">>)
               /\ Seg(<<"RUN npm install">>) \in Range(outDockerfile.text)
               /\ Seg(<<"EXPOSE 3000">>) \in Range(outDockerfile.text)
        /\ outCompose.exists =>
               PortsList(outCompose.text, IndentOf(prog))
                   = Seg(Ind(IndentOf(prog), 3) \o <<"- ", "3000:3000">>)

\* C15 witness: scenario A run with -compose has written an orchestration
\* text that publishes 3000:3000.
C15_Witness ==
    /\ Synthesized
    /\ RootIsOnly(<<"p","a","c","k","a","g","e",".","j","s","o","n">>)
    /\ pc = "exit"
    /\ exitCode = 0
    /\ config.baseImage = <<"node:18-alpine">>
    /\ outCompose.exists
    /\ PortsList(outCompose.text, IndentOf(prog))
           = Seg(Ind(IndentOf(prog), 3) \o <<"- ", "3000:3000">>)

\* C16: in scenario B (FileSet {go.mod}, no env file) the configuration has
\* base image golang:1.20-alpine and an empty environment mapping; a written
\* recipe has no ARG and no ENV line and a written orchestration text has
\* neither an environment list nor a secrets list.
C16_ScenarioB ==
    Synthesized /\ RootIsOnly(<<"g","o",".","m","o","d">>) =>
        /\ config.baseImage = <<"golang:1.20-alpine">>
        /\ config.environment = EmptyMap
        /\ envConfig.variables = EmptyMap
        /\ outDockerfile.exists =>
               /\ outDockerfile.text[1] = Seg(<<"FROM ", "golang:1.20-alpine">>)
               /\ PlacesOf(outDockerfile.text, "ARG ") = {}
               /\ PlacesOf(outDockerfile.text, "ENV ") = {}
               /\ Len(outDockerfile.text) = 2 + Len(config.commands)
        /\ outCompose.exists =>
               \A i \in DOMAIN outCompose.text : \A l \in DOMAIN outCompose.text[i] :
                   /\ "environment:" \notin Range(l)
                   /\ "secrets:" \notin Range(l)

\* C16 witness: scenario B run by the analyzer without -compose has written a
\* recipe that ends with the last instruction of the Go profile.
C16_Witness ==
    /\ Synthesized
    /\ prog = "analyzer"
    /\ RootIsOnly(<<"g","o",".","m","o","d">>)
    /\ pc = "exit"
    /\ exitCode = 0
    /\ outDockerfile.exists
    /\ outDockerfile.text[Len(outDockerfile.text)] = Seg(<<"CMD [\"./main\"]">>)

----------------------------------------------------------------------------
(* The inspector applied to nested paths and to names in other letter case *)

\* relative paths of files under a root, in walk order: marker names at the
\* top and in sub-directories, in other letter case, as part of a longer
\* name, and as the name of a directory
PathPool ==
    << <<"G","O",".","M","O","D">>, <<"G","e","m","f","i","l","e">>, <<"a","/","b","/","G","o",".","M","o","d">>, <<"g","o",".","m","o","d","/","n","o","t","e","s",".","t","x","t">>, <<"g","o",".","m","o","d",".","b","a","k">>,
       <<"l","i","b","/","g","e","m","f","i","l","e">>, <<"p","a","c","k","a","g","e",".","j","s","o","n">>, <<"s","u","b","/","P","A","C","K","A","G","E",".","J","S","O","N">>, <<"s","u","b","/","g","o",".","m","o","d">>,
       <<"w","e","b","/","i","n","d","e","x",".","P","H","P">>, <<"x","g","o",".","m","o","d">> >>

InitInspect ==
    /\ prog = "analyzer"
    /\ composeFlag \in BOOLEAN
    /\ \E I \in {J \in SUBSET (DOMAIN PathPool) : Cardinality(J) <= MaxFiles} :
           diskFiles = SelectSeq(PathPool, LAMBDA path : path \in {PathPool[i] : i \in I})
    /\ envDisk = OnlyDotEnv(NoFile)
    /\ pc = "start"
    /\ files = <<>>
    /\ envConfig = NewEnvConfig
    /\ config = NewDockerConfig(FALSE)
    /\ projectType = <<>>
    /\ outDockerfile = NoOutput
    /\ outCompose = NoOutput
    /\ exitCode = -1
    /\ output = <<>>
    /\ runs = 0
    /\ dirArg = TRUE

NextInspect == AnalyzeOk \/ Generate \/ SaveOk \/ SaveErr

SpecInspect == InitInspect /\ [][NextInspect]_vars

\* some path of fs ends, after its last / if it has one, with a name equal to
\* name but for the case of its letters
NameAtAnyDepth(fs, name) ==
    \E i \in DOMAIN fs : \E cut \in 0..Len(fs[i]) :
        /\ cut = 0 \/ fs[i][cut] = "/"
        /\ "/" \notin Range(SubSeq(fs[i], cut + 1, Len(fs[i])))
        /\ ToLower(SubSeq(fs[i], cut + 1, Len(fs[i]))) = ToLower(name)

\* C17: for the files of any root and every marker name, hasFile is a
\* Boolean that is true exactly when some file, at any depth, has a base name
\* equal to the name ignoring case; so a go.mod that is nested or spelled in
\* another case selects the Go profile when no Node.js marker is there.
C17_HasFileAnyDepthAnyCase ==
    prog = "analyzer" /\ pc \in {"generated", "exit"} =>
        /\ \A name \in {<<"g","o",".","m","o","d">>, <<"p","a","c","k","a","g","e",".","j","s","o","n">>, <<"G","e","m","f","i","l","e">>, <<"p","o","m",".","x","m","l">>, <<"i","n","d","e","x",".","p","h","p">>} :
               /\ hasFile(files, name) \in BOOLEAN
               /\ hasFile(files, name) = NameAtAnyDepth(files, name)
        /\ NameAtAnyDepth(files, <<"g","o",".","m","o","d">>) /\ ~NameAtAnyDepth(files, <<"p","a","c","k","a","g","e",".","j","s","o","n">>)
               => config.baseImage = <<"golang:1.20-alpine">>
        /\ NameAtAnyDepth(files, <<"p","a","c","k","a","g","e",".","j","s","o","n">>)
               => config.baseImage = <<"node:18-alpine">>
        /\ files = <<>> => config.baseImage = <<"ubuntu:latest">>

\* C17 witness: the only file of the root is a/b/Go.Mod and the Go profile
\* was selected.
C17_Witness ==
    /\ prog = "analyzer"
    /\ pc = "generated"
    /\ files = << <<"a","/","b","/","G","o",".","M","o","d">> >>
    /\ hasFile(files, <<"g","o",".","m","o","d">>)
    /\ config.baseImage = <<"golang:1.20-alpine">>

----------------------------------------------------------------------------
(* The environment mapping across synthesis *)

\* C18: the configuration's environment mapping is the mapping the collector
\* produced, but for the Ruby profile, where it is that mapping with
\* RAILS_ENV set to production; every other entry is carried unchanged.
C18_SynthesisFrame ==
    Synthesized /\ prog \in {"analyzer", "split"} =>
        config.environment =
            IF SelectedProfiles(config) = {"Ruby"}
            THEN MapSet(envConfig.variables, <<"R","A","I","L","S","_","E","N","V">>, <<"p","r","o","d","u","c","t","i","o","n">>)
            ELSE envConfig.variables

----------------------------------------------------------------------------
(* The ecosystem whose defaults the collector applies *)

\* the defaults of an ecosystem that has some
DefaultsOf(ecosystem) ==
    CASE ecosystem = "NodeJS" -> NodeCommonVars
      [] ecosystem = "Python" -> PythonCommonVars
      [] ecosystem = "Ruby"   -> RubyCommonVars
      [] ecosystem = "PHP"    -> PHPCommonVars

\* the first ecosystem with defaults, in the order of profile selection,
\* whose marker of profile selection is present; "none" without one
FirstWithDefaults(fs) ==
    LET order == << "NodeJS", "Python", "Ruby", "PHP" >>
        hits  == {i \in DOMAIN order : MarkerPresent(order[i], fs)}
    IN  IF hits = {} THEN "none"
        ELSE order[CHOOSE i \in hits : \A j \in hits : i <= j]

\* C19: when the collector has applied the defaults of an ecosystem (seen on
\* a root without env file, where the collected mapping is those defaults),
\* the ecosystem is the one the first match Node.js, Python, Ruby, PHP over
\* the markers of profile selection picks.
C19_DefaultsFollowSelectionOrder ==
    Synthesized /\ prog \in {"analyzer", "split"} /\ envDisk = OnlyDotEnv(NoFile) =>
        \A ecosystem \in {"NodeJS", "Python", "Ruby", "PHP"} :
            envConfig.variables = DefaultsOf(ecosystem)
                => FirstWithDefaults(files) = ecosystem

----------------------------------------------------------------------------
(* Entries of the env file against defaults *)

\* what one line of an env file defines, if anything: the key and the value
\* without the quotes around it
LineEntry(text) ==
    LET line == Trim(text, SpaceChars)
        m    == MatchVariable(line)
    IN  IF line = <<>> \/ line[1] = "#" \/ ~m.ok
        THEN [ok |-> FALSE, key |-> <<>>, value |-> <<>>]
        ELSE [ok |-> TRUE, key |-> m.key, value |-> Trim(m.value, {"\"", "'"})]

\* the lines of the env file the collector reads: those of the first
\* candidate that exists, none when that file cannot be opened
LinesRead ==
    IF \A i \in DOMAIN envDisk : ~envDisk[i].exists THEN <<>>
    ELSE LET first == CHOOSE i \in DOMAIN envDisk :
                          envDisk[i].exists /\ \A j \in 1..(i - 1) : ~envDisk[j].exists
         IN  IF envDisk[first].err = "open" THEN <<>> ELSE envDisk[first].lines

\* C20: after detectEnvironmentVariables every key the env file defines maps
\* to the value of its last definition in the file, and every other key of
\* the collected mapping is a default of one ecosystem with its default
\* value: a default never replaces an entry of the file.
C20_FileEntriesAuthoritative ==
    Synthesized /\ prog \in {"analyzer", "split"} =>
        LET defs == {n \in DOMAIN LinesRead : LineEntry(LinesRead[n]).ok}
            keys == {LineEntry(LinesRead[n]).key : n \in defs}
        IN  /\ \A n \in defs :
                   LET entry == LineEntry(LinesRead[n])
                   IN  /\ entry.key \in DOMAIN envConfig.variables
                       /\ (\A later \in defs :
                               later > n => LineEntry(LinesRead[later]).key # entry.key)
                              => envConfig.variables[entry.key] = entry.value
            /\ \A key \in (DOMAIN envConfig.variables) \ keys :
                   \E ecosystem \in {"NodeJS", "Python", "Ruby", "PHP"} :
                       /\ key \in DOMAIN DefaultsOf(ecosystem)
                       /\ envConfig.variables[key] = DefaultsOf(ecosystem)[key]
                       /\ DOMAIN DefaultsOf(ecosystem) \subseteq DOMAIN envConfig.variables

\* C20 witness: a Node.js project whose .env defines PORT twice: the
\* collected PORT is the last value of the file, not the default 3000, and
\* the default NODE_ENV has been added.
C20_Witness ==
    /\ Synthesized
    /\ prog = "analyzer"
    /\ hasFile(files, <<"p","a","c","k","a","g","e",".","j","s","o","n">>)
    /\ envDisk[1].lines = << <<"P","O","R","T"," ","="," ","'","8","0","8","0","'">>, <<"P","O","R","T","=","9">> >>
    /\ envConfig.variables[<<"P","O","R","T">>] = <<"9">>
    /\ envConfig.variables[<<"N","O","D","E","_","E","N","V">>] = <<"p","r","o","d","u","c","t","i","o","n">>

----------------------------------------------------------------------------
(* GenerateDockerFiles called with any project type *)

\* the project types the two switches of pkg/generate have a case for
SupportedTypes ==
    { <<"nodejs">>, <<"java">>, <<"python">>, <<"ruby">>, <<"go">>, <<"php">> }

\* project types a caller of GenerateDockerFiles may pass: the six cases,
\* the empty string, a case in other letters, and names without a case
TypePool ==
    SupportedTypes \cup { <<>>, <<"NodeJS">>, <<"golang">>, <<"gradle">>, <<"rust">> }

\* the error GenerateDockerFiles returns, by the step that fails first: the
\* read of .env, the rendering of either text, the write of either file
GenerateError(ed, type, ok1, ok2) ==
    IF readEnvFile(ed[1]).err THEN "read .env"
    ELSE IF getDockerfileContent(type, readEnvFile(ed[1]).envVars).err
         THEN "unsupported project type"
    ELSE IF getDockerComposeContent(type, readEnvFile(ed[1]).envVars).err
         THEN "unsupported project type"
    ELSE IF ~ok1 THEN "write Dockerfile"
    ELSE IF ~ok2 THEN "write docker-compose.yml"
    ELSE "nil"

\* a program other than main calls generate.GenerateDockerFiles on the root
\* with a project type of its own choice
CallGenerateDockerFiles ==
    /\ pc = "start"
    /\ prog = "docktool"
    /\ dirArg
    /\ \E type \in TypePool : \E ok1, ok2 \in BOOLEAN :
        LET r == GenerateDockerFiles(envDisk, type, ok1, ok2)
        IN  /\ projectType' = type
            /\ outDockerfile' = IF r.wroteDockerfile THEN Written(r.dockerfile) ELSE outDockerfile
            /\ outCompose' = IF r.wroteCompose THEN Written(r.compose) ELSE outCompose
            /\ pc' = "returned"
            /\ output' = Append(output, GenerateError(envDisk, type, ok1, ok2))
    /\ UNCHANGED <<prog, composeFlag, diskFiles, envDisk, files, envConfig, config,
                   exitCode, runs, dirArg>>

InitGenerate ==
    /\ Init
    /\ prog = "docktool"
    /\ dirArg
    /\ <<diskFiles, envDisk>> \in FileSets(MaxFiles) \X FewEnvDisks

NextGenerate == Detect \/ GenerateFiles \/ CallGenerateDockerFiles

SpecGenerate == InitGenerate /\ [][NextGenerate]_vars

----------------------------------------------------------------------------
(* Secret references of distinct keys *)

\* C22: in a written orchestration text distinct secret-like keys of the
\* configuration's environment mapping have distinct entries in the secrets
\* list of the app service: lower-casing the names makes no two keys render
\* as the same entry, so no entry of the secrets list occurs twice.
C22_DistinctSecretReferences ==
    ComposeWritten =>
        LET env    == config.environment
            u      == IndentOf(prog)
            secret == SecretsList(outCompose.text, u)
            hidden == {key \in DOMAIN env : SecretLike(key)}
        IN  /\ \A k1, k2 \in hidden :
                   k1 # k2 => SecretEntry(u, k1) # SecretEntry(u, k2)
            /\ \A key \in hidden : Copies(secret, SecretEntry(u, key)) = 1

----------------------------------------------------------------------------
(* The three copies of the secret classifier *)

\* the analyzer run with -compose on a root whose .env defines one key of
\* KeyPool: the collector classifies the key, the renderer routes it
InitRoute ==
    /\ prog \in {"analyzer", "split"}
    /\ composeFlag = TRUE
    /\ diskFiles \in FileSets(1)
    /\ \E key \in KeyPool : \E value \in ValuePool :
           envDisk = OnlyDotEnv(EnvFile(<< key \o <<"=">> \o value >>, "none"))
    /\ pc = "start"
    /\ files = <<>>
    /\ envConfig = NewEnvConfig
    /\ config = NewDockerConfig(FALSE)
    /\ projectType = <<>>
    /\ outDockerfile = NoOutput
    /\ outCompose = NoOutput
    /\ exitCode = -1
    /\ output = <<>>
    /\ runs = 0
    /\ dirArg = TRUE

SpecRoute == InitRoute /\ [][NextInspect]_vars

\* C23: isLikelySecret, isSecretVariable and isSecret return the same result
\* for every key, and isLikelySecret the same result for every value; hence
\* hasSecret and hasSecrets agree on every configuration, and in a written
\* orchestration text a key of the configuration is in the secrets list
\* exactly when the collector recorded it as a secret, and in the plain list
\* exactly when it did not.
C23_ClassifierCopiesAgree ==
    /\ \A key \in KeyPool : \A value \in ValuePool :
           /\ isLikelySecret(key, value) = isSecretVariable(key)
           /\ isSecretVariable(key) = isSecret(key)
           /\ \A other \in ValuePool : isLikelySecret(key, value) = isLikelySecret(key, other)
    /\ hasSecret(config) = hasSecrets(config)
    /\ ComposeWritten =>
           \A key \in DOMAIN config.environment :
               LET u        == IndentOf(prog)
                   recorded == key \in Range(envConfig.secrets)
               IN  /\ recorded <=>
                          Copies(SecretsList(outCompose.text, u), SecretEntry(u, key)) >= 1
                   /\ ~recorded <=> PlainCount(outCompose.text, u, key) >= 1

\* C23 witness: the .env defined MY_CERT; the collector recorded it as a
\* secret, all three classifiers accept it, and the written orchestration
\* text names it in the secrets list and not in the plain list.
C23_Witness ==
    /\ ComposeWritten
    /\ KeyOfDotEnv = <<"M","Y","_","C","E","R","T">>
    /\ <<"M","Y","_","C","E","R","T">> \in Range(envConfig.secrets)
    /\ <<"M","Y","_","C","E","R","T">> \in DOMAIN config.environment
    /\ isLikelySecret(<<"M","Y","_","C","E","R","T">>, <<"1">>)
    /\ isSecretVariable(<<"M","Y","_","C","E","R","T">>)
    /\ isSecret(<<"M","Y","_","C","E","R","T">>)
    /\ Copies(SecretsList(outCompose.text, IndentOf(prog)),
              SecretEntry(IndentOf(prog), <<"M","Y","_","C","E","R","T">>)) = 1
    /\ PlainCount(outCompose.text, IndentOf(prog), <<"M","Y","_","C","E","R","T">>) = 0

====
